---- MODULE Spec2Model ----
(***************************************************************************)
(* Model of the shafika Ethereum indexer's ingestion pipeline: the Redis   *)
(* job queue (common/queue.py), the failed-job store (common/failedjob.py),*)
(* the block processor (blockprocessor/processor.py), the log processor    *)
(* (logprocessor/logprocessor.py) and the redrive endpoints                *)
(* (api/server.py).                                                        *)
(*                                                                         *)
(* The relational tables are functions from primary key to row; a missing  *)
(* key is a missing row.  A SQLAlchemy session is modelled by what it      *)
(* leaves in the store: commit installs the session's view, rollback       *)
(* leaves the store as it was, an object that was only added (pending) is  *)
(* expunged by rollback, and a loaded (persistent) object survives it.     *)
(***************************************************************************)
EXTENDS Integers, Sequences, FiniteSets, TLC

VARIABLES
    queue,          \* Redis lists: queue name -> sequence of job ids
    payload,        \* Redis keys: job id -> stored job payload
    blocks,         \* table blocks: block_number -> row
    transactions,   \* table transactions: tx_hash -> row
    contracts,      \* table contracts: contract_address -> row
    address_stats,  \* table address_stats: address -> row
    failed_jobs,    \* table failed_jobs: job_id (unique) -> row
    transfers,      \* table transfers: <<tx_hash, log_index>> -> row
    approvals,      \* table approvals: <<tx_hash, log_index>> -> row
    nft_metadata,   \* table nft_metadata: <<token_address, token_id>> -> row
    bw,             \* BlockProcessor.run: position and locals of the loop
    lw,             \* LogProcessor.run: position and locals of the loop
    http,           \* last response of the admin API
    sessions,       \* open database transactions: upserts to issue, rows locked
    fetch,          \* _fetch_block_with_retry: RPC responses, attempt, outcome
    parsed,         \* _parse_transaction: the transaction given, the row built
    backfill,       \* POST /api/backfill: the request, the log walk, the response
    poller,         \* LogPoller.stream_new_logs: the connection, the events received
    batch,          \* token logs handled directly: the last one, those that returned
    swap,           \* process_uniswap_v3_swap: the data words, the Swap row built
    nftw,           \* _create_nft_metadata in two workers: what each has read
    tokens,         \* table tokens: token_address -> row
    meta            \* get_metadata: the last call, its contract calls, its result

vars == <<queue, payload, blocks, transactions, contracts, address_stats,
          failed_jobs, transfers, approvals, nft_metadata, bw, lw, http,
          sessions, fetch, parsed, backfill, poller, batch, swap,
          nftw, tokens, meta>>

redisVars == <<queue, payload>>
blockTables == <<blocks, transactions, contracts, address_stats>>
logTables == <<transfers, approvals, nft_metadata>>
\* What the pipelines above do not touch.
unitVars == <<sessions, fetch, parsed, backfill, poller, batch, swap,
              nftw, tokens, meta>>

----------------------------------------------------------------------------
(* Bounds *)

MaxBlock == 1       \* block numbers 1..MaxBlock appear on the chain
MaxQueue == 1       \* a queue holds at most MaxQueue job ids
MaxLog == 4         \* log events 1..MaxLog appear on the chain
MaxGas == 3         \* gas prices and fees are in 1..MaxGas
MaxEvents == 3      \* the log subscription delivers at most MaxEvents messages
MaxUpserts == 4     \* address_stats takes at most MaxUpserts upserts
WordBits == 4       \* bits of a word of log data (256 on the chain)
MaxRangeEnd == 10   \* the longest backfill range ends at block MaxRangeEnd

BlockNumbers == 1..MaxBlock
LogNumbers == 1..MaxLog

----------------------------------------------------------------------------
(* Small helpers over tables and sequences *)

Range(s) == {s[i] : i \in DOMAIN s}

Without(f, k) == [x \in DOMAIN f \ {k} |-> f[x]]

Put(f, k, v) == (k :> v) @@ f

EmptyTable == <<>>

Min(a, b) == IF a <= b THEN a ELSE b

Max(a, b) == IF a >= b THEN a ELSE b

----------------------------------------------------------------------------
(* The chain as seen through the RPC *)

NoAddr == "none"
ZeroAddress == "0x0"

\* str.lower() on the addresses that occur: checksummed forms map to the
\* lowercase forms, everything else is already lowercase.
Lower(a) ==
    CASE a = "A1" -> "a1"
      [] a = "A2" -> "a2"
      [] a = "T1" -> "t1"
      [] OTHER -> a

\* The hash eth_getBlockByNumber(n) returns.
CanonicalHash(n) == "hA"

\* The hash the newHeads header of block n carries: odd blocks are announced
\* with an orphaned hash (a reorg replaced them), even ones with the
\* canonical hash.
HeaderHash(n) == IF n % 2 = 1 THEN "hB" ELSE "hA"

ContractAddress(n) == "C" \o ToString(n)

\* block["transactions"]: a plain transfer and a contract creation.
TxsOf(n) ==
    << [hash |-> 2 * n - 1, from |-> "A1", to |-> "A2", value |-> 1,
        contractAddress |-> NoAddr],
       [hash |-> 2 * n, from |-> "A2", to |-> NoAddr, value |-> 0,
        contractAddress |-> ContractAddress(n)] >>

TxHashesOf(n) == {TxsOf(n)[i].hash : i \in DOMAIN TxsOf(n)}

----------------------------------------------------------------------------
(* Job ids and payloads *)

BlockJobId(n) == <<"block", n>>
LogJobId(i) == <<"log", i>>
NoJob == <<"none", 0>>

NoPayload == [job_type |-> "none", block_number |-> 0, block_hash |-> "",
              status |-> "none", log |-> 0]

BlockJob(n, h, st) == [job_type |-> "process_block", block_number |-> n,
                       block_hash |-> h, status |-> st, log |-> 0]

\* The log poller and the backfill build log payloads without a status key.
LogJob(i) == [job_type |-> "process_log", block_number |-> 0,
              block_hash |-> "", status |-> "none", log |-> i]

----------------------------------------------------------------------------
(* RedisQueueManager *)

\* push_json: SET job_id payload, then RPUSH queue job_id.
PushJsonPayload(p, job_id, data) == Put(p, job_id, data)

PushJsonQueue(q, queue_name, job_id) ==
    [q EXCEPT ![queue_name] = Append(@, job_id)]

\* delete_job: DEL job_id.
DeleteJob(p, job_id) == Without(p, job_id)

\* A call push_json(*args): queue_name, job_id and data are all required, so
\* a call with fewer arguments raises TypeError before the body runs.
PushJsonCall(r, args) ==
    IF Len(args) # 3
    THEN [raised |-> TRUE, queue |-> r.queue, payload |-> r.payload]
    ELSE [raised |-> FALSE,
          queue |-> PushJsonQueue(r.queue, args[1], args[2]),
          payload |-> PushJsonPayload(r.payload, args[2], args[3])]

\* bl_pop_block / bl_pop_log: BLPOP takes the head id off the list, GET reads
\* the payload; json.loads(None) raises TypeError when the key is gone.
BlPop(q, p, queue_name) ==
    LET job_id == Head(q[queue_name])
    IN [queue |-> [q EXCEPT ![queue_name] = Tail(@)],
        job_id |-> job_id,
        raised |-> job_id \notin DOMAIN p,
        job |-> IF job_id \in DOMAIN p THEN p[job_id] ELSE NoPayload]

----------------------------------------------------------------------------
(* FailedJobManager *)

\* Column defaults of FailedJob.
FailedJobDefaultStatus == "ERROR"
FailedJobDefaultRetries == 0

\* A record that reports True whether or not its row was committed.
RecordReturnsTrueOnFailure(fj, job_id, queue_name, job_type, data, dbOk) ==
    IF dbOk /\ job_id \notin DOMAIN fj
    THEN [ok |-> TRUE,
          failed_jobs |-> Put(fj, job_id,
              [queue_name |-> queue_name, job_type |-> job_type,
               data |-> data, status |-> FailedJobDefaultStatus,
               retries |-> FailedJobDefaultRetries])]
    ELSE [ok |-> TRUE, failed_jobs |-> fj]

\* record(job_id, data, error): add a FailedJob and commit -> True; any
\* exception (DB outage, unique violation on job_id) -> rollback, False.
Record(fj, job_id, queue_name, job_type, data, dbOk) ==
    IF dbOk /\ job_id \notin DOMAIN fj
    THEN [ok |-> TRUE,
          failed_jobs |-> Put(fj, job_id,
              [queue_name |-> queue_name, job_type |-> job_type,
               data |-> data, status |-> FailedJobDefaultStatus,
               retries |-> FailedJobDefaultRetries])]
    ELSE [ok |-> FALSE, failed_jobs |-> fj]

\* The rows redrive_failed_blocks selects: status ERROR and job_type BLOCK.
RedriveSelection(fj) ==
    {j \in DOMAIN fj : fj[j].status = "ERROR" /\ fj[j].job_type = "process_block"}

\* job_data["status"] = "retrying"
Retrying(data) == [data EXCEPT !.status = "retrying"]

----------------------------------------------------------------------------
(* BlockProcessor *)

\* An upsert that keeps a balance: what is sent is taken off eth_received.
UpdateAddressStatsNetsBalance(stats, address, block_number, eth_received, eth_sent, is_contract, contract_deployment) ==
    LET a == Lower(address)
        d == IF contract_deployment THEN 1 ELSE 0
    IN IF a \in DOMAIN stats
       THEN [stats EXCEPT ![a] =
                [@ EXCEPT !.last_seen_block = block_number,
                          !.tx_count = @ + 1,
                          !.eth_received = @ + eth_received - eth_sent,
                          !.eth_sent = @ + eth_sent,
                          !.contract_deployments = @ + d,
                          !.is_contract = IF is_contract THEN TRUE ELSE @]]
       ELSE Put(stats, a,
                [first_seen_block |-> block_number,
                 last_seen_block |-> block_number,
                 tx_count |-> 1,
                 eth_received |-> eth_received - eth_sent,
                 eth_sent |-> eth_sent,
                 contract_deployments |-> d,
                 token_transfers_sent |-> 0,
                 token_transfers_received |-> 0,
                 is_contract |-> is_contract])

\* _update_address_stats: INSERT ... ON CONFLICT (address) DO UPDATE.
UpdateAddressStats(stats, address, block_number, eth_received, eth_sent, is_contract, contract_deployment) ==
    LET a == Lower(address)
        d == IF contract_deployment THEN 1 ELSE 0
    IN IF a \in DOMAIN stats
       THEN [stats EXCEPT ![a] =
                [@ EXCEPT !.last_seen_block = block_number,
                          !.tx_count = @ + 1,
                          !.eth_received = @ + eth_received,
                          !.eth_sent = @ + eth_sent,
                          !.contract_deployments = @ + d,
                          !.is_contract = IF is_contract THEN TRUE ELSE @]]
       ELSE Put(stats, a,
                [first_seen_block |-> block_number,
                 last_seen_block |-> block_number,
                 tx_count |-> 1,
                 eth_received |-> eth_received,
                 eth_sent |-> eth_sent,
                 contract_deployments |-> d,
                 token_transfers_sent |-> 0,
                 token_transfers_received |-> 0,
                 is_contract |-> is_contract])

\* _check_contract_creation on the session view s: for a tx without `to`,
\* the receipt gives the contract address; the Contract is added (pending)
\* and the deployer's stats are upserted.  Any exception (here: the receipt
\* call) is swallowed by the method's own try/except.
CheckContractCreation(s, tx, block_number, receiptOk) ==
    IF tx.to = NoAddr /\ receiptOk /\ tx.contractAddress # NoAddr
    THEN [s EXCEPT
            !.pendingContract = tx.contractAddress,
            !.address_stats =
                IF tx.from # NoAddr
                THEN UpdateAddressStats(@, tx.from, block_number, 0, 0,
                                        FALSE, TRUE)
                ELSE @]
    ELSE s

\* The body of the per-transaction savepoint, up to savepoint.commit():
\* contract check, _parse_transaction, session.add, the two stats upserts.
\* s.raised tells whether the body raised.
SavepointBody(s, tx, block_number, block_hash, bad, receiptOk) ==
    LET s1 == CheckContractCreation(s, tx, block_number, receiptOk)
        s2 == IF tx.from # NoAddr
              THEN [s1 EXCEPT !.address_stats =
                      UpdateAddressStats(@, tx.from, block_number, 0,
                                         tx.value, FALSE, FALSE)]
              ELSE s1
        isContract == tx.to \in DOMAIN s.contracts
        s3 == IF tx.to # NoAddr
              THEN [s2 EXCEPT !.address_stats =
                      UpdateAddressStats(@, tx.to, block_number, tx.value,
                                         0, isContract, FALSE)]
              ELSE s2
    IN IF tx.hash \in bad
       THEN [s1 EXCEPT !.raised = TRUE]
       ELSE [s3 EXCEPT !.pendingTx =
                [block_number |-> block_number, block_hash |-> block_hash,
                 from_address |-> tx.from, to_address |-> tx.to,
                 value |-> tx.value]]

\* One iteration of the loop over block["transactions"]: the savepoint body,
\* then savepoint.commit(), whose flush INSERTs the pending Contract and
\* Transaction; a raise in the body or a primary-key conflict in the flush
\* rolls back to the savepoint (the view s as it was).
ProcessTx(s, tx, block_number, block_hash, bad, receiptOk) ==
    LET b == SavepointBody([s EXCEPT !.pendingContract = NoAddr,
                                     !.raised = FALSE],
                           tx, block_number, block_hash, bad, receiptOk)
        conflict == \/ tx.hash \in DOMAIN s.transactions
                    \/ /\ b.pendingContract # NoAddr
                       /\ b.pendingContract \in DOMAIN s.contracts
    IN IF b.raised \/ conflict
       THEN s
       ELSE [transactions |-> Put(s.transactions, tx.hash, b.pendingTx),
             contracts |->
                IF b.pendingContract # NoAddr
                THEN Put(s.contracts, b.pendingContract,
                         [deployer_address |-> tx.from,
                          deployment_tx_hash |-> tx.hash,
                          deployment_block_number |-> block_number])
                ELSE s.contracts,
             address_stats |-> b.address_stats,
             pendingContract |-> NoAddr,
             pendingTx |-> s.pendingTx,
             raised |-> FALSE]

RECURSIVE ProcessTxs(_, _, _, _, _, _)
ProcessTxs(s, txs, block_number, block_hash, bad, receiptOk) ==
    IF txs = <<>>
    THEN s
    ELSE ProcessTxs(ProcessTx(s, Head(txs), block_number, block_hash, bad,
                              receiptOk),
                    Tail(txs), block_number, block_hash, bad, receiptOk)

NoTxRow == [block_number |-> 0, block_hash |-> "", from_address |-> NoAddr,
            to_address |-> NoAddr, value |-> 0]

\* What block_record refers to after the first statement of process_block:
\* a new Block added to the session (pending), the row loaded by the query
\* (persistent), or None when the query finds no row.
BlockRecord(blks, job) ==
    IF job.status = "new" THEN "pending"
    ELSE IF job.block_number \in DOMAIN blks THEN "persistent"
    ELSE "none"

\* _mark_error, called after session.rollback(): a persistent block_record
\* gets worker_status ERROR and the change is committed (a failing commit is
\* swallowed); a pending block_record was expunged by the rollback, so the
\* commit writes nothing; None is skipped.
MarkError(blks, block_record, block_number, block_hash, markOk) ==
    IF block_record = "persistent" /\ markOk
    THEN [blks EXCEPT ![block_number].worker_status = "ERROR"]
    ELSE blks

\* A process_block that keeps the hash of the queue job on a mismatch.
ProcessBlockKeepsQueueHash(db, job, fetchOk, bad, receiptOk, commitOk, markOk) ==
    LET bn == job.block_number
        block_record == BlockRecord(db.blocks, job)
        actual_hash == CanonicalHash(bn)
        is_canonical == actual_hash = job.block_hash
        block_hash == job.block_hash
        \* the first flush INSERTs the pending Block
        duplicate == block_record = "pending" /\ bn \in DOMAIN db.blocks
        err == IF ~fetchOk THEN "rpc"
               ELSE IF duplicate THEN "integrity"
               ELSE IF ~commitOk THEN "db"
               ELSE "none"
        s == ProcessTxs([transactions |-> db.transactions,
                         contracts |-> db.contracts,
                         address_stats |-> db.address_stats,
                         pendingContract |-> NoAddr,
                         pendingTx |-> NoTxRow,
                         raised |-> FALSE],
                        TxsOf(bn), bn, block_hash, bad, receiptOk)
        doneRow == [block_hash |-> block_hash, canonical |-> TRUE,
                    worker_status |-> "DONE"]
    IN IF err # "none"
       THEN [ok |-> FALSE, err |-> err,
             blocks |-> MarkError(db.blocks, block_record, bn,
                                  job.block_hash, markOk),
             transactions |-> db.transactions,
             contracts |-> db.contracts,
             address_stats |-> db.address_stats]
       ELSE [ok |-> TRUE, err |-> "none",
             blocks |-> IF block_record = "none" THEN db.blocks
                        ELSE Put(db.blocks, bn, doneRow),
             transactions |-> s.transactions,
             contracts |-> s.contracts,
             address_stats |-> s.address_stats]

\* process_block(block_number, block_hash, block_status) on the store db.
\* Inputs: fetchOk (the block fetch succeeds), bad (hashes of transactions
\* whose parsing raises), receiptOk, commitOk (the outer commit succeeds),
\* markOk (the commit in _mark_error succeeds).
ProcessBlock(db, job, fetchOk, bad, receiptOk, commitOk, markOk) ==
    LET bn == job.block_number
        block_record == BlockRecord(db.blocks, job)
        actual_hash == CanonicalHash(bn)
        is_canonical == actual_hash = job.block_hash
        block_hash == IF is_canonical THEN job.block_hash ELSE actual_hash
        \* the first flush INSERTs the pending Block
        duplicate == block_record = "pending" /\ bn \in DOMAIN db.blocks
        err == IF ~fetchOk THEN "rpc"
               ELSE IF duplicate THEN "integrity"
               ELSE IF ~commitOk THEN "db"
               ELSE "none"
        s == ProcessTxs([transactions |-> db.transactions,
                         contracts |-> db.contracts,
                         address_stats |-> db.address_stats,
                         pendingContract |-> NoAddr,
                         pendingTx |-> NoTxRow,
                         raised |-> FALSE],
                        TxsOf(bn), bn, block_hash, bad, receiptOk)
        doneRow == [block_hash |-> block_hash, canonical |-> TRUE,
                    worker_status |-> "DONE"]
    IN IF err # "none"
       THEN [ok |-> FALSE, err |-> err,
             blocks |-> MarkError(db.blocks, block_record, bn,
                                  job.block_hash, markOk),
             transactions |-> db.transactions,
             contracts |-> db.contracts,
             address_stats |-> db.address_stats]
       ELSE [ok |-> TRUE, err |-> "none",
             blocks |-> IF block_record = "none" THEN db.blocks
                        ELSE Put(db.blocks, bn, doneRow),
             transactions |-> s.transactions,
             contracts |-> s.contracts,
             address_stats |-> s.address_stats]

----------------------------------------------------------------------------
(* LogProcessor *)

\* The decoded log of event i, as the backfill walk stores it in the job:
\* a mint of NFT (T1, 1) to A1, its transfer from A1 to A2, an ERC-20
\* approval, an ERC-20 transfer, and so on in turn.  kind stands for
\* topics[0] and the number of topics.
LogEvent(i) ==
    LET k == i % 4
    IN [kind |-> CASE k = 1 -> "erc721" [] k = 2 -> "erc721"
                   [] k = 3 -> "approval" [] OTHER -> "erc20",
        transaction_hash |-> i,
        log_index |-> 0,
        block_number |-> i,
        address |-> "T1",
        from |-> CASE k = 1 -> ZeroAddress [] k = 2 -> "A1"
                   [] k = 3 -> "A1" [] OTHER -> "A2",
        to |-> CASE k = 1 -> "A1" [] k = 2 -> "A2"
                 [] k = 3 -> "A2" [] OTHER -> "A1",
        token_id |-> IF k \in {1, 2} THEN 1 ELSE 0,
        amount |-> IF k \in {1, 2} THEN 1 ELSE 5]

\* _decode_address: "0x" + topic[-40:].lower()
DecodeAddress(topic) == Lower(topic)

\* An upsert whose conflict branch leaves the counters as they are.
UpdateTokenTransferStatsKeepsCount(stats, address, block_number, sent) ==
    LET a == Lower(address)
    IN IF a \in DOMAIN stats
       THEN [stats EXCEPT ![a] = [@ EXCEPT !.last_seen_block = block_number]]
       ELSE Put(stats, a,
                [first_seen_block |-> block_number,
                 last_seen_block |-> block_number,
                 tx_count |-> 0,
                 eth_received |-> 0,
                 eth_sent |-> 0,
                 contract_deployments |-> 0,
                 token_transfers_sent |-> IF sent THEN 1 ELSE 0,
                 token_transfers_received |-> IF sent THEN 0 ELSE 1,
                 is_contract |-> FALSE])

\* _update_token_transfer_stats: INSERT ... ON CONFLICT (address) DO UPDATE.
UpdateTokenTransferStats(stats, address, block_number, sent) ==
    LET a == Lower(address)
    IN IF a \in DOMAIN stats
       THEN [stats EXCEPT ![a] =
                [@ EXCEPT !.last_seen_block = block_number,
                          !.token_transfers_sent =
                              IF sent THEN @ + 1 ELSE @,
                          !.token_transfers_received =
                              IF sent THEN @ ELSE @ + 1]]
       ELSE Put(stats, a,
                [first_seen_block |-> block_number,
                 last_seen_block |-> block_number,
                 tx_count |-> 0,
                 eth_received |-> 0,
                 eth_sent |-> 0,
                 contract_deployments |-> 0,
                 token_transfers_sent |-> IF sent THEN 1 ELSE 0,
                 token_transfers_received |-> IF sent THEN 0 ELSE 1,
                 is_contract |-> FALSE])

\* A _save_transfer that upserts the stats of the zero address as well.
SaveTransferCountsZeroAddress(db, key, row, commitOk) ==
    LET s1 == IF row.from_address # NoAddr
              THEN UpdateTokenTransferStats(db.address_stats,
                                            row.from_address,
                                            row.block_number, TRUE)
              ELSE db.address_stats
        s2 == IF row.to_address # NoAddr
              THEN UpdateTokenTransferStats(s1, row.to_address,
                                            row.block_number, FALSE)
              ELSE s1
    IN IF ~commitOk
       THEN [outcome |-> "raised", transfers |-> db.transfers,
             address_stats |-> db.address_stats]
       ELSE IF key \in DOMAIN db.transfers
       THEN [outcome |-> "duplicate", transfers |-> db.transfers,
             address_stats |-> db.address_stats]
       ELSE [outcome |-> "committed",
             transfers |-> Put(db.transfers, key, row),
             address_stats |-> s2]

\* _save_transfer: one session holding the Transfer insert and the stats
\* upserts of both sides (the zero address is skipped).  A primary-key
\* conflict at commit is rolled back silently; any other error is rolled
\* back and re-raised.
SaveTransfer(db, key, row, commitOk) ==
    LET s1 == IF row.from_address # NoAddr /\ row.from_address # ZeroAddress
              THEN UpdateTokenTransferStats(db.address_stats,
                                            row.from_address,
                                            row.block_number, TRUE)
              ELSE db.address_stats
        s2 == IF row.to_address # NoAddr /\ row.to_address # ZeroAddress
              THEN UpdateTokenTransferStats(s1, row.to_address,
                                            row.block_number, FALSE)
              ELSE s1
    IN IF ~commitOk
       THEN [outcome |-> "raised", transfers |-> db.transfers,
             address_stats |-> db.address_stats]
       ELSE IF key \in DOMAIN db.transfers
       THEN [outcome |-> "duplicate", transfers |-> db.transfers,
             address_stats |-> db.address_stats]
       ELSE [outcome |-> "committed",
             transfers |-> Put(db.transfers, key, row),
             address_stats |-> s2]

\* _create_nft_metadata: its own session; an existing row gets the new
\* owner, otherwise a stub is inserted; every error is rolled back and
\* swallowed.
CreateNftMetadata(nft, token_address, token_id, owner, block_number, tx_hash, nftOk) ==
    LET key == <<token_address, token_id>>
    IN IF ~nftOk THEN nft
       ELSE IF key \in DOMAIN nft
       THEN [nft EXCEPT ![key].owner = owner]
       ELSE Put(nft, key, [owner |-> owner,
                           first_seen_block |-> block_number,
                           first_seen_tx |-> tx_hash,
                           metadata_fetched |-> FALSE])

\* _process_erc20_or_erc721_transfer.  metaOk: get_metadata's Token query
\* succeeds (its exception is not caught on the way up to run()).
ProcessTransfer(db, ev, metaOk, commitOk, nftOk) ==
    LET from_address == DecodeAddress(ev.from)
        to_address == DecodeAddress(ev.to)
        token_address == Lower(ev.address)
        key == <<ev.transaction_hash, ev.log_index>>
        row == [block_number |-> ev.block_number,
                token_address |-> token_address,
                token_type |-> ev.kind,
                token_id |-> ev.token_id,
                from_address |-> from_address,
                to_address |-> to_address,
                amount |-> ev.amount]
        saved == SaveTransfer(db, key, row, commitOk)
        unchanged == [raised |-> TRUE, wrote |-> "rolledback",
                      transfers |-> db.transfers,
                      approvals |-> db.approvals,
                      nft_metadata |-> db.nft_metadata,
                      address_stats |-> db.address_stats]
    IN IF ~metaOk THEN [unchanged EXCEPT !.wrote = "none"]
       ELSE IF saved.outcome = "raised" THEN unchanged
       ELSE [raised |-> FALSE,
             wrote |-> IF ev.kind = "erc721" /\ to_address # NoAddr /\ ~nftOk
                       THEN "rolledback"
                       ELSE saved.outcome,
             transfers |-> saved.transfers,
             approvals |-> db.approvals,
             nft_metadata |->
                IF ev.kind = "erc721" /\ to_address # NoAddr
                THEN CreateNftMetadata(db.nft_metadata, token_address,
                                       ev.token_id, Lower(to_address),
                                       ev.block_number, ev.transaction_hash,
                                       nftOk)
                ELSE db.nft_metadata,
             address_stats |-> saved.address_stats]

\* _process_approval_event: one session with the Approval insert; a
\* primary-key conflict and every other error are rolled back and swallowed.
ProcessApproval(db, ev, commitOk) ==
    LET key == <<ev.transaction_hash, ev.log_index>>
        row == [block_number |-> ev.block_number,
                token_address |-> Lower(ev.address),
                owner |-> Lower(ev.from),
                spender |-> Lower(ev.to),
                value |-> ev.amount]
        ok == commitOk /\ key \notin DOMAIN db.approvals
    IN [raised |-> FALSE,
        wrote |-> IF ~commitOk THEN "rolledback"
                  ELSE IF key \in DOMAIN db.approvals THEN "duplicate"
                  ELSE "committed",
        transfers |-> db.transfers,
        approvals |-> IF ok THEN Put(db.approvals, key, row)
                      ELSE db.approvals,
        nft_metadata |-> db.nft_metadata,
        address_stats |-> db.address_stats]

\* process_log: dispatch on topics[0].
ProcessLog(db, job, metaOk, commitOk, nftOk) ==
    LET ev == LogEvent(job.log)
    IN IF ev.kind = "approval"
       THEN ProcessApproval(db, ev, commitOk)
       ELSE ProcessTransfer(db, ev, metaOk, commitOk, nftOk)

\* The token logs handled: a TransferBatch minting tokens 1 and 2 at log
\* index 0 of transaction 1, an ERC-20 Transfer at log index 1 of the same
\* transaction, a TransferBatch minting token 3 at log index 1 of
\* transaction 2, and an ERC-20 burn at log index 0 of transaction 2.
TokenLogNumbers == 1..4

TokenLog(j) ==
    [kind |-> IF j \in {2, 4} THEN "erc20" ELSE "erc1155_batch",
     transaction_hash |-> IF j \in {3, 4} THEN 2 ELSE 1,
     log_index |-> IF j \in {1, 4} THEN 0 ELSE 1,
     block_number |-> 1,
     address |-> "T1",
     from |-> CASE j = 2 -> "A1" [] j = 4 -> "A2" [] OTHER -> ZeroAddress,
     to |-> CASE j = 2 -> "A2" [] j = 4 -> ZeroAddress [] OTHER -> "A1",
     token_id |-> 0,
     amount |-> IF j \in {2, 4} THEN 5 ELSE 0,
     data |-> "abi",
     ids |-> CASE j = 1 -> <<1, 2>> [] j = 3 -> <<3>> [] OTHER -> <<>>,
     values |-> CASE j = 1 -> <<5, 5>> [] j = 3 -> <<5>> [] OTHER -> <<>>]

\* unique_log_index = base_log_index * 1000 + i
UniqueLogIndex(base_log_index, i) == base_log_index * 1000 + i

\* The Transfer built for entry i (from 0) of a TransferBatch.
BatchRow(ev, i) ==
    [block_number |-> ev.block_number,
     token_address |-> Lower(ev.address),
     token_type |-> "erc1155",
     token_id |-> ev.ids[i + 1],
     from_address |-> DecodeAddress(ev.from),
     to_address |-> DecodeAddress(ev.to),
     amount |-> ev.values[i + 1]]

\* The loop of _process_erc1155_batch from entry i on: _save_transfer in a
\* session of its own, then _create_nft_metadata in another.  failAt is the
\* number of the entry whose commit raises (0: none), which ends the loop;
\* nftBad are the entries whose metadata session fails (swallowed).
RECURSIVE BatchEntries(_, _, _, _, _)
BatchEntries(db, ev, i, failAt, nftBad) ==
    IF i >= Len(ev.ids) THEN db
    ELSE LET key == <<ev.transaction_hash, UniqueLogIndex(ev.log_index, i)>>
             row == BatchRow(ev, i)
             saved == SaveTransfer(db, key, row, failAt # i + 1)
         IN IF saved.outcome = "raised"
            THEN [db EXCEPT !.raised = TRUE]
            ELSE BatchEntries(
                   [db EXCEPT
                      !.transfers = saved.transfers,
                      !.address_stats = saved.address_stats,
                      !.nft_metadata =
                         IF row.to_address # NoAddr
                         THEN CreateNftMetadata(@, row.token_address,
                                                row.token_id,
                                                Lower(row.to_address),
                                                row.block_number,
                                                ev.transaction_hash,
                                                (i + 1) \notin nftBad)
                         ELSE @],
                   ev, i + 1, failAt, nftBad)

\* The malformed TransferBatch logs: data shorter than 66 characters, data
\* that bytes.fromhex or decode rejects, and arrays of different length.
MalformedLogNumbers == 5..7

MalformedLog(j) ==
    CASE j = 5 -> [TokenLog(1) EXCEPT !.data = "short"]
      [] j = 6 -> [TokenLog(1) EXCEPT !.data = "undecodable"]
      [] OTHER -> [TokenLog(1) EXCEPT !.values = <<5>>]

\* _process_erc1155_batch: short data returns at once; inside the try,
\* data that does not decode raises, arrays of different length return;
\* get_metadata or a commit that raises is re-raised to run(), as is
\* every exception of the try block.
ProcessErc1155Batch(db, ev, metaOk, failAt, nftBad) ==
    LET start == [raised |-> FALSE, wrote |-> "none",
                  transfers |-> db.transfers,
                  approvals |-> db.approvals,
                  nft_metadata |-> db.nft_metadata,
                  address_stats |-> db.address_stats]
    IN IF ev.data = "short" THEN start
       ELSE IF ev.data = "undecodable" THEN [start EXCEPT !.raised = TRUE]
       ELSE IF Len(ev.ids) # Len(ev.values) THEN start
       ELSE IF ~metaOk THEN [start EXCEPT !.raised = TRUE]
       ELSE BatchEntries(start, ev, 0, failAt, nftBad)

----------------------------------------------------------------------------
(* Initial state: empty Redis, empty tables, both workers at the top of
   their loops. *)

QueueNames == {"blocks", "logs"}

\* A worker blocked in BLPOP at the top of its loop; the locals of the last
\* iteration are dead.  processed tells whether process_block / process_log
\* returned ("ok") or raised; wrote tells what became of the database writes
\* of the job ("none": nothing was written, "committed", "duplicate": a
\* primary-key conflict was rolled back silently, "rolledback": another
\* error was rolled back).
IdleWorker == [pc |-> "idle", job_id |-> NoJob, job |-> NoPayload,
               err |-> "none", processed |-> "none", wrote |-> "none"]

NoResponse == [endpoint |-> "none", status |-> 0]

\* No backfill request yet.
\* No call of process_uniswap_v3_swap under way.
NoSwap == [amount0 |-> 0, amount1 |-> 0, done |-> FALSE, saved |-> FALSE,
           row |-> [dex_name |-> ""], resolved |-> FALSE, refused |-> FALSE,
           factory |-> "none"]

\* No token log handled yet.
NoBatch == [last |-> 0, raised |-> FALSE, done |-> {}]

\* The log poller before its first connection.
NoPoller == [connected |-> FALSE, received |-> <<>>]

\* No request body: request.is_json is False, web3 is configured.
NoRequest == [web3 |-> TRUE, is_json |-> FALSE,
              start |-> [kind |-> "missing", n |-> 0],
              end |-> [kind |-> "missing", n |-> 0],
              batch_size |-> [kind |-> "missing", n |-> 0]]

NoBackfill == [state |-> "none", request |-> NoRequest,
               start |-> 0, end |-> 0, batch_size |-> 0,
               current_block |-> 0, current_batch_size |-> 0,
               blocks_queued |-> 0, total_logs |-> 0, last |-> "none",
               calls |-> 0,
               response |-> [status |-> 0, blocks_queued |-> 0,
                             logs_queued |-> 0, failed_at_block |-> 0]]

\* No call of _parse_transaction under way.
NoParse == [tx |-> [type |-> 0, gas |-> 0, gasPrice |-> 0,
                    maxFeePerGas |-> 0, maxPriorityFeePerGas |-> 0],
            base_fee_known |-> FALSE, base_fee_per_gas |-> 0,
            done |-> FALSE, row |-> [status |-> 0]]

\* No call of _fetch_block_with_retry under way.
NoFetch == [responses |-> <<>>, attempt |-> 0, calls |-> 0,
            outcome |-> "none"]

SessionIds == {1, 2}

\* No _create_nft_metadata under way in either worker; no job completed.
NoNftWorkers ==
    [workers |-> [w \in SessionIds |->
                    [pc |-> "idle", job |-> 0, existing |-> FALSE]],
     last |-> 0]

\* No get_metadata call made yet.
NoMetadataCall ==
    [token_address |-> NoAddr, token_type |-> "none", calls |-> {},
     threw |-> {}, result |-> [symbol |-> "none", decimals |-> "none"]]

\* No transaction open: nothing to issue, no row locked.
ClosedSession == [open |-> FALSE, stmts |-> <<>>, held |-> {}]

InitPipelines ==
    /\ queue = [q \in QueueNames |-> <<>>]
    /\ payload = EmptyTable
    /\ blocks = EmptyTable
    /\ transactions = EmptyTable
    /\ contracts = EmptyTable
    /\ address_stats = EmptyTable
    /\ failed_jobs = EmptyTable
    /\ transfers = EmptyTable
    /\ approvals = EmptyTable
    /\ nft_metadata = EmptyTable
    /\ bw = IdleWorker
    /\ lw = IdleWorker
    /\ http = NoResponse

Init ==
    /\ InitPipelines
    /\ sessions = [p \in SessionIds |-> ClosedSession]
    /\ swap = NoSwap
    /\ nftw = NoNftWorkers
    /\ tokens = EmptyTable
    /\ meta = NoMetadataCall
    /\ batch = NoBatch
    /\ poller = NoPoller
    /\ fetch = NoFetch
    /\ parsed = NoParse
    /\ backfill = NoBackfill

----------------------------------------------------------------------------
(* Block pipeline *)

\* BlockPoller.stream_new_block: one newHeads message -> push_json of
\* block:<n> with status "new" and the header's hash.
BlockPollerPush ==
    \E n \in BlockNumbers :
        /\ Len(queue["blocks"]) < MaxQueue
        /\ payload' = PushJsonPayload(payload, BlockJobId(n),
                                      BlockJob(n, HeaderHash(n), "new"))
        /\ queue' = PushJsonQueue(queue, "blocks", BlockJobId(n))
        /\ UNCHANGED <<unitVars, blockTables, logTables, failed_jobs, bw, lw, http>>

\* BlockProcessor.run, top of the loop: bl_pop_block.  A missing payload
\* makes json.loads raise outside the try block: the worker dies.
BlockPop ==
    /\ bw.pc = "idle"
    /\ queue["blocks"] # <<>>
    /\ LET r == BlPop(queue, payload, "blocks")
       IN /\ queue' = r.queue
          /\ bw' = IF r.raised
                   THEN [IdleWorker EXCEPT !.pc = "crashed"]
                   ELSE [IdleWorker EXCEPT !.pc = "process",
                                           !.job_id = r.job_id,
                                           !.job = r.job]
    /\ UNCHANGED <<unitVars, payload, blockTables, logTables, failed_jobs, lw, http>>

\* BlockProcessor.run: self.process_block(...) inside the try.
BlockProcess ==
    /\ bw.pc = "process"
    /\ \E fetchOk \in BOOLEAN, bad \in SUBSET TxHashesOf(bw.job.block_number),
          receiptOk \in BOOLEAN, commitOk \in BOOLEAN, markOk \in BOOLEAN :
        LET r == ProcessBlock([blocks |-> blocks,
                               transactions |-> transactions,
                               contracts |-> contracts,
                               address_stats |-> address_stats],
                              bw.job, fetchOk, bad, receiptOk, commitOk,
                              markOk)
        IN /\ blocks' = r.blocks
           /\ transactions' = r.transactions
           /\ contracts' = r.contracts
           /\ address_stats' = r.address_stats
           /\ bw' = IF r.ok
                    THEN [bw EXCEPT !.pc = "ack", !.processed = "ok",
                                    !.wrote = "committed"]
                    ELSE [bw EXCEPT !.pc = "record", !.processed = "raised",
                                    !.err = r.err,
                                    !.wrote = IF r.err = "integrity"
                                              THEN "duplicate"
                                              ELSE "rolledback"]
    /\ UNCHANGED <<unitVars, redisVars, logTables, failed_jobs, lw, http>>

\* BlockProcessor.run after process_block returned: delete_job, then for a
\* retry self.failed_job.remove_failed_job(job_id).  FailedJobManager has no
\* attribute remove_failed_job, so the call raises AttributeError inside the
\* try and control passes to the except branch.
BlockAck ==
    /\ bw.pc = "ack"
    /\ payload' = DeleteJob(payload, bw.job_id)
    /\ bw' = IF bw.job.status = "retrying"
             THEN [bw EXCEPT !.pc = "record", !.err = "attribute"]
             ELSE IdleWorker
    /\ UNCHANGED <<unitVars, queue, blockTables, logTables, failed_jobs, lw, http>>

\* BlockProcessor.run, except branch: record the failure; ack only when
\* record returned True, else leave the payload and log CRITICAL.
BlockRecordFailure ==
    /\ bw.pc = "record"
    /\ \E dbOk \in BOOLEAN :
        LET r == Record(failed_jobs, bw.job_id, "blocks", "process_block",
                        bw.job, dbOk)
        IN /\ failed_jobs' = r.failed_jobs
           /\ payload' = IF r.ok THEN DeleteJob(payload, bw.job_id)
                         ELSE payload
           /\ bw' = IdleWorker
    /\ UNCHANGED <<unitVars, queue, blockTables, logTables, lw, http>>

\* FailedJobManager.redrive_failed_blocks: every selected row is pushed with
\* status "retrying" and set to RETRYING with retries + 1; the commit at the
\* end may fail, which rolls the row changes back but not the pushes.
RedriveFailedBlocks ==
    LET sel == RedriveSelection(failed_jobs)
    IN /\ sel # {}
       /\ Len(queue["blocks"]) + Cardinality(sel) <= MaxQueue
       /\ \E order \in [1..Cardinality(sel) -> sel], commitOk \in BOOLEAN :
            /\ Range(order) = sel
            /\ queue' = [queue EXCEPT !["blocks"] = @ \o order]
            /\ payload' = [j \in DOMAIN payload \cup sel |->
                             IF j \in sel THEN Retrying(failed_jobs[j].data)
                             ELSE payload[j]]
            /\ failed_jobs' =
                 IF commitOk
                 THEN [j \in DOMAIN failed_jobs |->
                         IF j \in sel
                         THEN [failed_jobs[j] EXCEPT !.status = "RETRYING",
                                                     !.retries = @ + 1]
                         ELSE failed_jobs[j]]
                 ELSE failed_jobs
       /\ UNCHANGED <<unitVars, blockTables, logTables, bw, lw, http>>

\* POST /api/redrive-blocks and /api/redrive-logs: both handlers call
\* FailedJobManager.redrive_failed_jobs(), which the class does not define;
\* the AttributeError is caught and answered with 500.
ApiRedrive ==
    \E ep \in {"redrive-blocks", "redrive-logs"} :
        /\ http' = [endpoint |-> ep, status |-> 500]
        /\ UNCHANGED <<unitVars, redisVars, blockTables, logTables, failed_jobs, bw,
                       lw>>

BlockNext ==
    \/ BlockPollerPush
    \/ BlockPop
    \/ BlockProcess
    \/ BlockAck
    \/ BlockRecordFailure
    \/ RedriveFailedBlocks

SpecBlock == Init /\ [][BlockNext]_vars

\* The deployed services: the poller, the block processor and the admin API,
\* which is the only caller of redrive.
ApiNext ==
    \/ BlockPollerPush
    \/ BlockPop
    \/ BlockProcess
    \/ BlockAck
    \/ BlockRecordFailure
    \/ ApiRedrive

SpecApi == Init /\ [][ApiNext]_vars

----------------------------------------------------------------------------
(* Log pipeline *)

\* The backfill's log walk (POST /api/backfill): one log of a fetched window
\* is stored and queued as log:<tx_hash>:<log_index>.
BackfillPushLog ==
    \E i \in LogNumbers :
        /\ Len(queue["logs"]) < MaxQueue
        /\ payload' = PushJsonPayload(payload, LogJobId(i), LogJob(i))
        /\ queue' = PushJsonQueue(queue, "logs", LogJobId(i))
        /\ UNCHANGED <<unitVars, blockTables, logTables, failed_jobs, bw, lw, http>>

\* LogProcessor.run, top of the loop: bl_pop_log.
LogPop ==
    /\ lw.pc = "idle"
    /\ queue["logs"] # <<>>
    /\ LET r == BlPop(queue, payload, "logs")
       IN /\ queue' = r.queue
          /\ lw' = IF r.raised
                   THEN [IdleWorker EXCEPT !.pc = "crashed"]
                   ELSE [IdleWorker EXCEPT !.pc = "process",
                                           !.job_id = r.job_id,
                                           !.job = r.job]
    /\ UNCHANGED <<unitVars, payload, blockTables, logTables, failed_jobs, bw, http>>

\* LogProcessor.run: self.process_log(job) inside the try.
LogProcess ==
    /\ lw.pc = "process"
    /\ \E metaOk \in BOOLEAN, commitOk \in BOOLEAN, nftOk \in BOOLEAN :
        LET r == ProcessLog([transfers |-> transfers,
                             approvals |-> approvals,
                             nft_metadata |-> nft_metadata,
                             address_stats |-> address_stats],
                            lw.job, metaOk, commitOk, nftOk)
        IN /\ transfers' = r.transfers
           /\ approvals' = r.approvals
           /\ nft_metadata' = r.nft_metadata
           /\ address_stats' = r.address_stats
           /\ lw' = IF r.raised
                    THEN [lw EXCEPT !.pc = "record", !.processed = "raised",
                                    !.err = "db", !.wrote = r.wrote]
                    ELSE [lw EXCEPT !.pc = "ack", !.processed = "ok",
                                    !.wrote = r.wrote]
    /\ UNCHANGED <<unitVars, redisVars, blocks, transactions, contracts, failed_jobs,
                   bw, http>>

\* LogProcessor.run after process_log returned: delete_job.
LogAck ==
    /\ lw.pc = "ack"
    /\ payload' = DeleteJob(payload, lw.job_id)
    /\ lw' = IdleWorker
    /\ UNCHANGED <<unitVars, queue, blockTables, logTables, failed_jobs, bw, http>>

\* LogProcessor.run, except branch.
LogRecordFailure ==
    /\ lw.pc = "record"
    /\ \E dbOk \in BOOLEAN :
        LET r == Record(failed_jobs, lw.job_id, "logs", "process_log",
                        lw.job, dbOk)
        IN /\ failed_jobs' = r.failed_jobs
           /\ payload' = IF r.ok THEN DeleteJob(payload, lw.job_id)
                         ELSE payload
           /\ lw' = IdleWorker
    /\ UNCHANGED <<unitVars, queue, blockTables, logTables, bw, http>>

LogNext ==
    \/ BackfillPushLog
    \/ LogPop
    \/ LogProcess
    \/ LogAck
    \/ LogRecordFailure

SpecLog == Init /\ [][LogNext]_vars

----------------------------------------------------------------------------
(* The AddressStats upserts of one database transaction, in order of issue *)

\* _save_transfer: the sender's upsert, then the receiver's; the zero
\* address is skipped.
SaveTransferUpserts(from_address, to_address) ==
    (IF from_address # NoAddr /\ from_address # ZeroAddress
     THEN <<Lower(from_address)>> ELSE <<>>)
    \o (IF to_address # NoAddr /\ to_address # ZeroAddress
        THEN <<Lower(to_address)>> ELSE <<>>)

\* One pass of the loop of process_block: the deployer's upsert of
\* _check_contract_creation, then tx_model.from_address, then
\* tx_model.to_address.
TxUpserts(tx, receiptOk) ==
    (IF tx.to = NoAddr /\ receiptOk /\ tx.contractAddress # NoAddr
        /\ tx.from # NoAddr
     THEN <<Lower(tx.from)>> ELSE <<>>)
    \o (IF tx.from # NoAddr THEN <<Lower(tx.from)>> ELSE <<>>)
    \o (IF tx.to # NoAddr THEN <<Lower(tx.to)>> ELSE <<>>)

\* The whole loop: process_block keeps one transaction open across all
\* transactions of the block.
RECURSIVE BlockUpserts(_, _)
BlockUpserts(txs, receiptOk) ==
    IF txs = <<>> THEN <<>>
    ELSE TxUpserts(Head(txs), receiptOk) \o BlockUpserts(Tail(txs), receiptOk)

----------------------------------------------------------------------------
(* Row locks of concurrent database transactions on address_stats *)

pipelineVars == <<redisVars, blockTables, logTables, failed_jobs, bw, lw, http>>

\* What one transaction of a processor upserts: _save_transfer of a transfer
\* log, or process_block of a block.
SessionWorkloads ==
    {SaveTransferUpserts(DecodeAddress(LogEvent(i).from),
                         DecodeAddress(LogEvent(i).to)) :
        i \in {k \in LogNumbers : LogEvent(k).kind # "approval"}}
    \cup {BlockUpserts(TxsOf(n), receiptOk) :
            n \in BlockNumbers, receiptOk \in BOOLEAN}

\* INSERT ... ON CONFLICT DO UPDATE locks the row of its address until the
\* transaction ends; another transaction's upsert of that address waits.
LockedByOther(p, a) ==
    \E q \in SessionIds \ {p} : a \in sessions[q].held

\* session = SessionLocal(): a processor opens the transaction of one job.
SessionBegin(p) ==
    /\ ~sessions[p].open
    /\ \E w \in SessionWorkloads :
         sessions' = [sessions EXCEPT
                        ![p] = [open |-> TRUE, stmts |-> w, held |-> {}]]
    /\ UNCHANGED <<poller, batch, swap, nftw, tokens, meta, pipelineVars, fetch, parsed, backfill>>

\* session.execute(stmt) of the next upsert, once its row is free.
SessionUpsert(p) ==
    /\ sessions[p].open
    /\ sessions[p].stmts # <<>>
    /\ ~LockedByOther(p, Head(sessions[p].stmts))
    /\ sessions' = [sessions EXCEPT
                      ![p].held = @ \cup {Head(sessions[p].stmts)},
                      ![p].stmts = Tail(@)]
    /\ UNCHANGED <<poller, batch, swap, nftw, tokens, meta, pipelineVars, fetch, parsed, backfill>>

\* session.commit() after the last upsert: the locks are released.
SessionCommit(p) ==
    /\ sessions[p].open
    /\ sessions[p].stmts = <<>>
    /\ sessions' = [sessions EXCEPT ![p] = ClosedSession]
    /\ UNCHANGED <<poller, batch, swap, nftw, tokens, meta, pipelineVars, fetch, parsed, backfill>>

\* session.rollback() after an error between two statements.
SessionRollback(p) ==
    /\ sessions[p].open
    /\ sessions[p].stmts # <<>>
    /\ ~LockedByOther(p, Head(sessions[p].stmts))
    /\ sessions' = [sessions EXCEPT ![p] = ClosedSession]
    /\ UNCHANGED <<poller, batch, swap, nftw, tokens, meta, pipelineVars, fetch, parsed, backfill>>

LockNext ==
    \E p \in SessionIds :
        \/ SessionBegin(p)
        \/ SessionUpsert(p)
        \/ SessionCommit(p)
        \/ SessionRollback(p)

SpecLock == Init /\ [][LockNext]_vars

----------------------------------------------------------------------------
(* BlockProcessor._fetch_block_with_retry *)

\* max_retries
MaxRetries == 5

\* What web3.eth.get_block can do: return the block, raise HTTPError with
\* status 429 or with another status, or raise another exception.
RpcResponses == {"block", "429", "500", "timeout"}

\* A variant that backs off and retries after every HTTPError.
FetchRetriesAnyHttpError(f) ==
    LET response == f.responses[f.attempt + 1]
        called == [f EXCEPT !.calls = @ + 1]
    IN IF response = "block"
       THEN [called EXCEPT !.outcome = "returned"]
       ELSE IF response \in {"429", "500"}
       THEN IF f.attempt = MaxRetries - 1
            THEN [called EXCEPT !.outcome = "raised"]
            ELSE [called EXCEPT !.attempt = @ + 1]
       ELSE [called EXCEPT !.outcome = "raised"]

\* One pass of `for attempt in range(max_retries)`: the call returns the
\* block; a 429 sleeps, then raises on the last attempt and otherwise goes to
\* the next attempt; every other error is raised at once.
FetchAttempt(f) ==
    LET response == f.responses[f.attempt + 1]
        called == [f EXCEPT !.calls = @ + 1]
    IN IF response = "block"
       THEN [called EXCEPT !.outcome = "returned"]
       ELSE IF response = "429"
       THEN IF f.attempt = MaxRetries - 1
            THEN [called EXCEPT !.outcome = "raised"]
            ELSE [called EXCEPT !.attempt = @ + 1]
       ELSE [called EXCEPT !.outcome = "raised"]

\* The call starts with the responses the RPC is going to give.
InitFetch ==
    /\ InitPipelines
    /\ sessions = [p \in SessionIds |-> ClosedSession]
    /\ swap = NoSwap
    /\ nftw = NoNftWorkers
    /\ tokens = EmptyTable
    /\ meta = NoMetadataCall
    /\ batch = NoBatch
    /\ poller = NoPoller
    /\ fetch \in {[responses |-> r, attempt |-> 0, calls |-> 0,
                   outcome |-> "pending"] :
                    r \in [1..MaxRetries -> RpcResponses]}
    /\ parsed = NoParse
    /\ backfill = NoBackfill

FetchBlockWithRetry ==
    /\ fetch.outcome = "pending"
    /\ fetch.attempt < MaxRetries
    /\ fetch' = FetchAttempt(fetch)
    /\ UNCHANGED <<poller, batch, swap, nftw, tokens, meta, pipelineVars, sessions, parsed, backfill>>

FetchNext == FetchBlockWithRetry

SpecFetch == InitFetch /\ [][FetchNext]_vars

----------------------------------------------------------------------------
(* BlockProcessor._parse_transaction: the gas columns *)

GasValues == 1..MaxGas

\* The transactions of a block as the RPC gives them: legacy (type 0) or
\* EIP-1559 (type 2), with gasPrice and the two fee caps.
TxData ==
    [type : {0, 2}, gas : {1}, gasPrice : GasValues,
     maxFeePerGas : GasValues, maxPriorityFeePerGas : GasValues]

\* The columns of the Transaction that _parse_transaction sets from the gas
\* fields: gas_used = tx.get("gas"), gas_price = int(tx.get("gasPrice", 0)),
\* status = 1.  The method is given block_number, block_hash and block_ts,
\* not the base fee of the block, and reads neither the type nor the fee
\* caps of the transaction.
ParseTransaction(tx) ==
    [gas_used |-> tx.gas, gas_price |-> tx.gasPrice, status |-> 1]

InitParse ==
    /\ InitPipelines
    /\ sessions = [p \in SessionIds |-> ClosedSession]
    /\ swap = NoSwap
    /\ nftw = NoNftWorkers
    /\ tokens = EmptyTable
    /\ meta = NoMetadataCall
    /\ batch = NoBatch
    /\ poller = NoPoller
    /\ fetch = NoFetch
    /\ backfill = NoBackfill
    /\ parsed \in {[tx |-> tx, base_fee_known |-> k, base_fee_per_gas |-> b,
                    done |-> FALSE, row |-> [status |-> 0]] :
                     tx \in TxData, k \in BOOLEAN, b \in GasValues}

ParseTx ==
    /\ ~parsed.done
    /\ parsed' = [parsed EXCEPT
                    !.done = TRUE,
                    !.row = ParseTransaction(parsed.tx)]
    /\ UNCHANGED <<poller, batch, swap, nftw, tokens, meta, pipelineVars, sessions, fetch, backfill>>

ParseNext == ParseTx

SpecParse == InitParse /\ [][ParseNext]_vars

----------------------------------------------------------------------------
(* POST /api/backfill *)

\* The batch sizes requested (the handler accepts 1..1000).
BatchSizes == {1, 5, 10, 20, 25, 40}

\* `if current_batch_size < 10`: below this the walk gives up.
MinBatchSize == 10

\* More get_logs calls than a walk makes: one call per block of the
\* longest range when the batch is 1; a larger batch takes fewer windows,
\* of ten blocks or more when a window had to be retried.
MaxCalls == MaxRangeEnd + 2

\* What web3.eth.get_logs can do for a window: return the logs, raise an
\* error whose text has "-32005" or "more than 10000 results", or raise
\* another error.
GetLogsResponses == {"logs", "limit", "error"}

\* The logs of the blocks from..to, in block order.
RECURSIVE LogsIn(_, _)
LogsIn(from, to) ==
    IF from > to THEN <<>>
    ELSE (IF from \in LogNumbers /\ LogEvent(from).block_number = from
          THEN <<from>> ELSE <<>>) \o LogsIn(from + 1, to)

\* push_json of the block jobs of from..to, one after the other.
RECURSIVE PushBlockJobs(_, _, _)
PushBlockJobs(r, from, to) ==
    IF from > to THEN r
    ELSE PushBlockJobs(
           [queue |-> PushJsonQueue(r.queue, "blocks", BlockJobId(from)),
            payload |-> PushJsonPayload(r.payload, BlockJobId(from),
                                        BlockJob(from, "", "new"))],
           from + 1, to)

\* push_json of the log jobs of logs, one after the other.
RECURSIVE PushLogJobs(_, _)
PushLogJobs(r, logs) ==
    IF logs = <<>> THEN r
    ELSE PushLogJobs(
           [queue |-> PushJsonQueue(r.queue, "logs", LogJobId(Head(logs))),
            payload |-> PushJsonPayload(r.payload, LogJobId(Head(logs)),
                                        LogJob(Head(logs)))],
           Tail(logs))

\* A window end one block too far: the next window starts on it again.
BatchEndOverlaps(w) == Min(w.current_block + w.current_batch_size, w.end)

\* batch_end = min(current_block + current_batch_size - 1, end)
BatchEnd(w) == Min(w.current_block + w.current_batch_size - 1, w.end)

\* The 500 response of the walk.
FailedResponse(w) ==
    [status |-> 500, blocks_queued |-> w.blocks_queued,
     logs_queued |-> w.total_logs, failed_at_block |-> w.current_block]

\* A variant that retries with the batch size it had.
HalvedBatchSizeKeeps(n) == Max(1, n)

\* current_batch_size = max(1, current_batch_size // 2)
HalvedBatchSize(n) == Max(1, n \div 2)

\* A variant that halves the batch and goes on to the next window.
OnLimitErrorSkipsWindow(w) ==
    LET halved == HalvedBatchSize(w.current_batch_size)
        next == [w EXCEPT !.current_batch_size = halved, !.last = "limit"]
    IN IF halved < MinBatchSize
       THEN [next EXCEPT !.state = "failed", !.response = FailedResponse(w)]
       ELSE [next EXCEPT !.current_block = BatchEnd(w) + 1]

\* The except branch for "-32005" / "more than 10000 results": halve the
\* batch (at least 1); below 10 answer 500, otherwise `continue` with the
\* same current_block.
OnLimitError(w) ==
    LET halved == HalvedBatchSize(w.current_batch_size)
        next == [w EXCEPT !.current_batch_size = halved, !.last = "limit"]
    IN IF halved < MinBatchSize
       THEN [next EXCEPT !.state = "failed", !.response = FailedResponse(w)]
       ELSE next

\* The values of a JSON body: a key that is absent, a string that is no
\* number, an integer, and the number k/2 (a fraction when k is odd).
JsonMissing == [kind |-> "missing", n |-> 0]
JsonText == [kind |-> "text", n |-> 0]
JsonInt(n) == [kind |-> "int", n |-> n]
JsonHalves(k) == [kind |-> "float", n |-> k]

\* int(x) of Python: an int is itself, a float is truncated toward zero, a
\* string that is no number raises ValueError.
PyInt(v) ==
    CASE v.kind = "int" -> [raised |-> FALSE, n |-> v.n]
      [] v.kind = "float" ->
            [raised |-> FALSE,
             n |-> IF v.n >= 0 THEN v.n \div 2 ELSE 0 - ((0 - v.n) \div 2)]
      [] OTHER -> [raised |-> TRUE, n |-> 0]

MAX_LOG_RANGE == 50000

\* data.get("batch_size", 100)
DefaultBatchSize == 100

\* `if batch_size < 1 or batch_size > 1000`
MaxBatchSize == 1000

\* The requests sent: with or without a JSON body, to a service with or
\* without ETH_HTTP_URL.
BackfillRequests ==
    [web3 : BOOLEAN, is_json : BOOLEAN,
     start : {JsonMissing, JsonText, JsonInt(0 - 1), JsonInt(0), JsonHalves(3)}
             \cup {JsonInt(n) : n \in LogNumbers},
     end : {JsonMissing, JsonHalves(5), JsonInt(MAX_LOG_RANGE + MaxLog),
            JsonInt(MaxRangeEnd)}
           \cup {JsonInt(n) : n \in LogNumbers},
     batch_size : {JsonMissing, JsonText, JsonInt(0), JsonInt(MaxBatchSize + 1),
                   JsonHalves(41)}
                  \cup {JsonInt(n) : n \in BatchSizes}]

\* The checks of the handler before anything is pushed: status 0 lets the
\* request through with the converted start, end and batch_size.
ValidateBackfill(req) ==
    LET start == PyInt(req.start)
        end == PyInt(req.end)
        batch_size == IF req.batch_size.kind = "missing"
                      THEN [raised |-> FALSE, n |-> DefaultBatchSize]
                      ELSE PyInt(req.batch_size)
        answer(status) == [status |-> status, start |-> 0, end |-> 0,
                           batch_size |-> 0]
    IN IF ~req.web3 THEN answer(500)
       ELSE IF ~req.is_json THEN answer(400)
       ELSE IF req.start.kind = "missing" \/ req.end.kind = "missing"
       THEN answer(400)
       ELSE IF start.raised \/ end.raised THEN answer(400)
       ELSE IF start.n < 0 \/ end.n < 0 THEN answer(400)
       ELSE IF start.n > end.n THEN answer(400)
       ELSE IF end.n - start.n + 1 > MAX_LOG_RANGE THEN answer(400)
       ELSE IF batch_size.raised THEN answer(400)
       ELSE IF batch_size.n < 1 \/ batch_size.n > MaxBatchSize
       THEN answer(400)
       ELSE [status |-> 0, start |-> start.n, end |-> end.n,
             batch_size |-> batch_size.n]

\* The handler up to the log walk: the request is validated and answered
\* at once when a check fails; otherwise the block jobs of start..end are
\* pushed and the walk starts at start.
BackfillStart ==
    /\ backfill.state = "none"
    /\ \E req \in BackfillRequests :
         LET v == ValidateBackfill(req)
             r == PushBlockJobs([queue |-> queue, payload |-> payload],
                                v.start, v.end)
         IN IF v.status # 0
            THEN /\ backfill' = [NoBackfill EXCEPT
                                   !.state = "rejected",
                                   !.request = req,
                                   !.response.status = v.status]
                 /\ UNCHANGED redisVars
            ELSE /\ queue' = r.queue
                 /\ payload' = r.payload
                 /\ backfill' = [NoBackfill EXCEPT
                                   !.state = "walking",
                                   !.request = req,
                                   !.start = v.start, !.end = v.end,
                                   !.batch_size = v.batch_size,
                                   !.current_block = v.start,
                                   !.current_batch_size = v.batch_size,
                                   !.blocks_queued = v.end - v.start + 1]
    /\ UNCHANGED <<poller, batch, swap, nftw, tokens, meta, blockTables, logTables, failed_jobs, bw, lw, http,
                   sessions, fetch, parsed>>

\* One pass of `while current_block <= end`: get_logs of the window; its
\* logs are pushed and the walk advances with the requested batch size, or
\* the error is handled.
BackfillWindow ==
    /\ backfill.state = "walking"
    /\ backfill.current_block <= backfill.end
    /\ backfill.calls < MaxCalls
    /\ \E response \in GetLogsResponses :
         CASE response = "logs" ->
                LET logs == LogsIn(backfill.current_block, BatchEnd(backfill))
                    r == PushLogJobs([queue |-> queue, payload |-> payload],
                                     logs)
                IN /\ queue' = r.queue
                   /\ payload' = r.payload
                   /\ backfill' = [backfill EXCEPT
                                     !.total_logs = @ + Len(logs),
                                     !.current_block = BatchEnd(backfill) + 1,
                                     !.current_batch_size = backfill.batch_size,
                                     !.calls = @ + 1,
                                     !.last = "logs"]
           [] response = "limit" ->
                /\ backfill' = [OnLimitError(backfill) EXCEPT
                                  !.calls = @ + 1]
                /\ UNCHANGED redisVars
           [] OTHER ->
                /\ backfill' = [backfill EXCEPT
                                  !.state = "failed", !.last = "error",
                                  !.calls = @ + 1,
                                  !.response = FailedResponse(backfill)]
                /\ UNCHANGED redisVars
    /\ UNCHANGED <<poller, batch, swap, nftw, tokens, meta, blockTables, logTables, failed_jobs, bw, lw, http,
                   sessions, fetch, parsed>>

\* The walk is through: 201 with the counts.
BackfillFinish ==
    /\ backfill.state = "walking"
    /\ backfill.current_block > backfill.end
    /\ backfill' = [backfill EXCEPT
                      !.state = "done",
                      !.response = [status |-> 201,
                                    blocks_queued |-> backfill.blocks_queued,
                                    logs_queued |-> backfill.total_logs,
                                    failed_at_block |-> 0]]
    /\ UNCHANGED <<poller, batch, swap, nftw, tokens, meta, pipelineVars, sessions, fetch, parsed>>

BackfillNext ==
    \/ BackfillStart
    \/ BackfillWindow
    \/ BackfillFinish

SpecBackfill == Init /\ [][BackfillNext]_vars

\* The request handler is a running thread: it goes on to the next pass of
\* its loop and to its return statement.
SpecBackfillLive ==
    SpecBackfill /\ WF_vars(BackfillWindow) /\ WF_vars(BackfillFinish)

----------------------------------------------------------------------------
(* LogPoller.stream_new_logs *)

\* The messages of the logs subscription: the log event i, or 0 for a
\* message whose result carries no blockNumber.
SubscriptionMessages == LogNumbers \cup {0}

\* `async with connect(self.ws_url)` and eth_subscribe.
LogPollerConnect ==
    /\ ~poller.connected
    /\ Len(poller.received) < MaxEvents
    /\ poller' = [poller EXCEPT !.connected = TRUE]
    /\ UNCHANGED <<batch, swap, nftw, tokens, meta, pipelineVars, sessions, fetch, parsed, backfill>>

\* One pass of the inner `while True`: a message is received; for an event
\* with a blockNumber the job dict is built and
\* self.queue.push_json(self.queue_name, job) is called.  An exception
\* leaves the `async with` (the connection is closed) and is printed by the
\* outer except; the loop then connects again.
LogPollerReceive ==
    /\ poller.connected
    /\ Len(poller.received) < MaxEvents
    /\ \E ev \in SubscriptionMessages :
         LET c == IF ev # 0
                  THEN PushJsonCall([queue |-> queue, payload |-> payload],
                                    <<"logs", LogJob(ev)>>)
                  ELSE [raised |-> FALSE, queue |-> queue, payload |-> payload]
         IN /\ queue' = c.queue
            /\ payload' = c.payload
            /\ poller' = [connected |-> ~c.raised,
                          received |-> Append(poller.received, ev)]
    /\ UNCHANGED <<batch, swap, nftw, tokens, meta, blockTables, logTables, failed_jobs, bw, lw, http,
                   sessions, fetch, parsed, backfill>>

LogPollerNext ==
    \/ LogPollerConnect
    \/ LogPollerReceive

SpecLogPoller == Init /\ [][LogPollerNext]_vars

----------------------------------------------------------------------------
(* SIGINT / SIGTERM in the block processor *)

\* main() calls processor.run() and installs no signal handler, and run()
\* has no stop flag: SIGTERM ends the process at once, SIGINT raises
\* KeyboardInterrupt at the statement being executed, which `except
\* Exception` does not catch.  Either way the loop ends where it stands; an
\* open database transaction is discarded with the connection.
BlockSignal ==
    /\ bw.pc \in {"idle", "process", "ack", "record"}
    /\ bw' = [bw EXCEPT !.pc = "stopped"]
    /\ UNCHANGED <<unitVars, redisVars, blockTables, logTables, failed_jobs,
                   lw, http>>

ShutdownNext ==
    \/ BlockPollerPush
    \/ BlockPop
    \/ BlockProcess
    \/ BlockAck
    \/ BlockRecordFailure
    \/ BlockSignal

SpecShutdown == Init /\ [][ShutdownNext]_vars

----------------------------------------------------------------------------
(* LogProcessor.process_log on the token logs of a transaction *)

\* process_log(job) for a TransferBatch or a Transfer log, as run() calls
\* it; the handlers commit through sessions of their own.
HandleTokenLog ==
    /\ \E j \in TokenLogNumbers, metaOk \in BOOLEAN :
       \E failAt \in 0..Max(1, Len(TokenLog(j).ids)),
          nftBad \in SUBSET (1..Len(TokenLog(j).ids)) :
        LET ev == TokenLog(j)
            db == [transfers |-> transfers, approvals |-> approvals,
                   nft_metadata |-> nft_metadata,
                   address_stats |-> address_stats]
            r == IF ev.kind = "erc1155_batch"
                 THEN ProcessErc1155Batch(db, ev, metaOk, failAt, nftBad)
                 ELSE ProcessTransfer(db, ev, metaOk, failAt = 0, TRUE)
        IN /\ transfers' = r.transfers
           /\ address_stats' = r.address_stats
           /\ nft_metadata' = r.nft_metadata
           /\ batch' = [last |-> j, raised |-> r.raised,
                        done |-> IF r.raised THEN batch.done
                                 ELSE batch.done \cup {j}]
    /\ UNCHANGED <<redisVars, blocks, transactions, contracts, approvals,
                   failed_jobs, bw, lw, http>>
    /\ UNCHANGED <<sessions, fetch, parsed, backfill, poller, swap, nftw, tokens, meta>>

TokenLogNext == HandleTokenLog

SpecTokenLog == Init /\ [][TokenLogNext]_vars

\* One iteration of LogProcessor.run on a malformed TransferBatch job:
\* process_log, then delete_job, or record and delete_job when it raised.
HandleMalformedLog ==
    /\ \E j \in MalformedLogNumbers, metaOk \in BOOLEAN, dbOk \in BOOLEAN :
        LET db == [transfers |-> transfers, approvals |-> approvals,
                   nft_metadata |-> nft_metadata,
                   address_stats |-> address_stats]
            r == ProcessErc1155Batch(db, MalformedLog(j), metaOk, 0, {})
            rec == Record(failed_jobs, LogJobId(j), "logs", "process_log",
                          LogJob(j), dbOk)
        IN /\ transfers' = r.transfers
           /\ address_stats' = r.address_stats
           /\ nft_metadata' = r.nft_metadata
           /\ failed_jobs' = IF r.raised THEN rec.failed_jobs
                             ELSE failed_jobs
           /\ batch' = [batch EXCEPT !.last = j, !.raised = r.raised]
    /\ UNCHANGED <<redisVars, blocks, transactions, contracts, approvals,
                   bw, lw, http>>
    /\ UNCHANGED <<sessions, fetch, parsed, backfill, poller, swap, nftw, tokens, meta>>

MalformedLogNext ==
    \/ HandleTokenLog
    \/ HandleMalformedLog

SpecMalformedLog == Init /\ [][MalformedLogNext]_vars

----------------------------------------------------------------------------
(* The two upserts of address_stats *)

StatsAddresses == {"A1", "A2"}

\* Wei amounts of a transaction.
TxValues == {0, 1}

\* The number of upserts a row has taken: each one adds 1 to tx_count, to
\* token_transfers_sent or to token_transfers_received.
RowUpserts(stats, a) ==
    IF a \in DOMAIN stats
    THEN stats[a].tx_count + stats[a].token_transfers_sent
         + stats[a].token_transfers_received
    ELSE 0

UpsertCount(stats) == RowUpserts(stats, "a1") + RowUpserts(stats, "a2")

\* A committed _update_address_stats, called as process_block and
\* _check_contract_creation call it: for the deployer (contract_deployment),
\* for the sender (eth_sent = value) or for the receiver (eth_received =
\* value, is_contract as looked up).
BlockStatsUpsert ==
    /\ UpsertCount(address_stats) < MaxUpserts
    /\ \E address \in StatsAddresses, block_number \in BlockNumbers,
          role \in {"deployer", "sender", "receiver"}, value \in TxValues,
          is_contract \in BOOLEAN :
         address_stats' =
            CASE role = "deployer" ->
                   UpdateAddressStats(address_stats, address, block_number,
                                      0, 0, FALSE, TRUE)
              [] role = "sender" ->
                   UpdateAddressStats(address_stats, address, block_number,
                                      0, value, FALSE, FALSE)
              [] OTHER ->
                   UpdateAddressStats(address_stats, address, block_number,
                                      value, 0, is_contract, FALSE)
    /\ UNCHANGED <<redisVars, blocks, transactions, contracts, logTables,
                   failed_jobs, bw, lw, http>>
    /\ UNCHANGED <<sessions, fetch, parsed, backfill, poller, batch, swap, nftw, tokens, meta>>

\* A committed _update_token_transfer_stats, called by _save_transfer for
\* the sender (sent) or the receiver of a token transfer.
TokenStatsUpsert ==
    /\ UpsertCount(address_stats) < MaxUpserts
    /\ \E address \in StatsAddresses, block_number \in BlockNumbers,
          sent \in BOOLEAN :
         address_stats' = UpdateTokenTransferStats(address_stats, address,
                                                   block_number, sent)
    /\ UNCHANGED <<redisVars, blocks, transactions, contracts, logTables,
                   failed_jobs, bw, lw, http>>
    /\ UNCHANGED <<sessions, fetch, parsed, backfill, poller, batch, swap, nftw, tokens, meta>>

StatsNext ==
    \/ BlockStatsUpsert
    \/ TokenStatsUpsert

SpecStats == Init /\ [][StatsNext]_vars

----------------------------------------------------------------------------
(* DexProcessor.process_uniswap_v3_swap / LogProcessor._process_uniswap_v3_swap *)

RECURSIVE Pow2(_)
Pow2(n) == IF n = 0 THEN 1 ELSE 2 * Pow2(n - 1)

\* The values of one word of data.
Words == 0..(Pow2(WordBits) - 1)

\* int.from_bytes(word, "big", signed=True)
FromBytesSigned(word) ==
    IF word >= Pow2(WordBits - 1) THEN word - Pow2(WordBits) ELSE word

\* abs(n)
Abs(n) == IF n < 0 THEN 0 - n ELSE n

\* str(n)
Str(n) == ToString(n)

\* A variant that stores the signed amount on the input side.
ProcessUniswapV3SwapKeepsSign(word0, word1) ==
    LET amount0 == FromBytesSigned(word0)
        amount1 == FromBytesSigned(word1)
    IN [dex_name |-> "uniswap_v3",
        amount0_in |-> IF amount0 < 0 THEN Str(amount0) ELSE "0",
        amount0_out |-> IF amount0 > 0 THEN Str(amount0) ELSE "0",
        amount1_in |-> IF amount1 < 0 THEN Str(amount1) ELSE "0",
        amount1_out |-> IF amount1 > 0 THEN Str(amount1) ELSE "0"]

\* The Swap built from the first two words of the data: a negative amount
\* is stored as input, a positive one as output, both as decimal strings.
ProcessUniswapV3Swap(word0, word1) ==
    LET amount0 == FromBytesSigned(word0)
        amount1 == FromBytesSigned(word1)
    IN [dex_name |-> "uniswap_v3",
        amount0_in |-> IF amount0 < 0 THEN Str(Abs(amount0)) ELSE "0",
        amount0_out |-> IF amount0 > 0 THEN Str(amount0) ELSE "0",
        amount1_in |-> IF amount1 < 0 THEN Str(Abs(amount1)) ELSE "0",
        amount1_out |-> IF amount1 > 0 THEN Str(amount1) ELSE "0"]

\* The call starts with the data words of the log.
InitSwap ==
    /\ InitPipelines
    /\ sessions = [p \in SessionIds |-> ClosedSession]
    /\ fetch = NoFetch
    /\ parsed = NoParse
    /\ backfill = NoBackfill
    /\ poller = NoPoller
    /\ batch = NoBatch
    /\ swap \in {[NoSwap EXCEPT !.amount0 = w0, !.amount1 = w1] :
                   w0 \in Words, w1 \in Words}
    /\ nftw = NoNftWorkers
    /\ tokens = EmptyTable
    /\ meta = NoMetadataCall

\* The handler: the amounts are decoded, the pool's tokens are looked up
\* (without them the handler returns), the Swap is added and committed (a
\* failing commit is rolled back and swallowed).
V3Swap ==
    /\ ~swap.done
    /\ \E tokensOk \in BOOLEAN, commitOk \in BOOLEAN :
         swap' = [swap EXCEPT
                    !.done = TRUE,
                    !.saved = tokensOk /\ commitOk,
                    !.row = IF tokensOk /\ commitOk
                            THEN ProcessUniswapV3Swap(swap.amount0,
                                                      swap.amount1)
                            ELSE @]
    /\ UNCHANGED <<pipelineVars, sessions, fetch, parsed, backfill>>
    /\ UNCHANGED <<poller, batch, nftw, tokens, meta>>

SwapNext == V3Swap

SpecSwap == InitSwap /\ [][SwapNext]_vars

----------------------------------------------------------------------------
(* process_uniswap_v2_swap: DexProcessor and the log processor's handler *)

\* What factory() on a pool returns: the Uniswap V2, SushiSwap and
\* Uniswap V3 factories, a factory outside the table, and None when the
\* call fails (_get_pool_factory swallows the exception).
Factories ==
    {"uniswap_v2_factory", "sushiswap_factory", "uniswap_v3_factory",
     "other_factory", NoAddr}

\* The body of _get_dex_from_factory: the table of known factories,
\* compared in lowercase.
GetDexFromFactory(factory_address) ==
    IF factory_address = NoAddr
    THEN "unknown"
    ELSE LET factory_lower == Lower(factory_address)
         IN CASE factory_lower = "uniswap_v2_factory" -> "uniswap_v2"
              [] factory_lower = "sushiswap_factory" -> "sushiswap"
              [] factory_lower = "uniswap_v3_factory" -> "uniswap_v3"
              [] OTHER -> "unknown"

\* A call of _get_dex_from_factory with the positional arguments args. The
\* function is defined in the class body with the single parameter
\* factory_address (no self, no staticmethod), so a call through the
\* instance passes two arguments and raises TypeError before the body runs.
GetDexFromFactoryCall(args) ==
    IF Len(args) # 1
    THEN [raised |-> TRUE, value |-> "unknown"]
    ELSE [raised |-> FALSE, value |-> GetDexFromFactory(args[1])]

\* The Swap row of a V2 log: the first and the fourth data word as unsigned
\* decimal strings, under the given dex_name.
V2SwapRow(dex_name, word0, word3) ==
    [dex_name |-> dex_name,
     amount0_in |-> Str(word0), amount1_out |-> Str(word3)]

\* DexProcessor.process_uniswap_v2_swap: the amounts are decoded, the
\* pool's tokens are looked up (without them the handler returns), the
\* factory is read and named by self._get_dex_from_factory(factory_address),
\* "unknown" falls back to "uniswap_v2", and the Swap is added and
\* committed. Whatever is raised on the way is caught by the outer except
\* and printed.
ProcessUniswapV2Swap(word0, word3, tokensOk, factory_address, commitOk) ==
    LET call == GetDexFromFactoryCall(<<"self", factory_address>>)
        dex_name == IF call.value = "unknown" THEN "uniswap_v2"
                    ELSE call.value
    IN IF ~tokensOk \/ call.raised \/ ~commitOk
       THEN [saved |-> FALSE, row |-> NoSwap.row]
       ELSE [saved |-> TRUE, row |-> V2SwapRow(dex_name, word0, word3)]

\* One call of DexProcessor.process_uniswap_v2_swap.
DexV2Swap ==
    /\ ~swap.done
    /\ \E tokensOk \in BOOLEAN, factory_address \in Factories,
          commitOk \in BOOLEAN :
         LET r == ProcessUniswapV2Swap(swap.amount0, swap.amount1, tokensOk,
                                       factory_address, commitOk)
         IN swap' = [swap EXCEPT
                       !.done = TRUE, !.saved = r.saved, !.row = r.row,
                       !.resolved = tokensOk, !.refused = ~commitOk,
                       !.factory = factory_address]
    /\ UNCHANGED <<pipelineVars, sessions, fetch, parsed, backfill>>
    /\ UNCHANGED <<poller, batch, nftw, tokens, meta>>

\* One call of LogProcessor._process_uniswap_v2_swap, the handler process_log
\* dispatches a V2 Swap log to: the same steps without the factory, the
\* row's dex_name is the literal "uniswap_v2".
LogV2Swap ==
    /\ ~swap.done
    /\ \E tokensOk \in BOOLEAN, factory_address \in Factories,
          commitOk \in BOOLEAN :
         swap' = [swap EXCEPT
                    !.done = TRUE,
                    !.saved = tokensOk /\ commitOk,
                    !.row = IF tokensOk /\ commitOk
                            THEN V2SwapRow("uniswap_v2", swap.amount0,
                                           swap.amount1)
                            ELSE @,
                    !.resolved = tokensOk,
                    !.refused = ~commitOk,
                    !.factory = factory_address]
    /\ UNCHANGED <<pipelineVars, sessions, fetch, parsed, backfill>>
    /\ UNCHANGED <<poller, batch, nftw, tokens, meta>>

SwapV2Next == DexV2Swap \/ LogV2Swap

SpecSwapV2 == InitSwap /\ [][SwapV2Next]_vars

----------------------------------------------------------------------------
(* _create_nft_metadata in two log workers, and the metadata worker *)

\* The first half of _create_nft_metadata in worker w, for an ERC-721
\* transfer log of token (t1, 1): the session's query for the row.
NftQuery(w) ==
    /\ nftw.workers[w].pc = "idle"
    /\ \E i \in {n \in LogNumbers : LogEvent(n).kind = "erc721"} :
         nftw' = [nftw EXCEPT
                    !.workers[w] =
                       [pc |-> "queried", job |-> i,
                        existing |->
                           <<Lower(LogEvent(i).address), LogEvent(i).token_id>>
                              \in DOMAIN nft_metadata]]
    /\ UNCHANGED <<pipelineVars, sessions, fetch, parsed, backfill, poller,
                   batch, swap, tokens, meta>>

\* The second half: the owner of the row that was read is set, or a stub
\* is added, and the session commits; an IntegrityError (the row was
\* inserted meanwhile) is rolled back and ignored.
NftCommit(w) ==
    /\ nftw.workers[w].pc = "queried"
    /\ LET me == nftw.workers[w]
           ev == LogEvent(me.job)
           key == <<Lower(ev.address), ev.token_id>>
       IN /\ nft_metadata' =
                IF ~me.existing /\ key \in DOMAIN nft_metadata
                THEN nft_metadata
                ELSE CreateNftMetadata(nft_metadata, Lower(ev.address),
                                       ev.token_id,
                                       Lower(DecodeAddress(ev.to)),
                                       ev.block_number, ev.transaction_hash,
                                       TRUE)
          /\ nftw' = [nftw EXCEPT
                       !.workers[w] = NoNftWorkers.workers[w],
                       !.last = me.job]
    /\ UNCHANGED <<redisVars, blockTables, transfers, approvals, failed_jobs,
                   bw, lw, http>>
    /\ UNCHANGED <<sessions, fetch, parsed, backfill, poller, batch, swap,
                   tokens, meta>>

\* NftMetadataWorker: a row without metadata gets its off-chain fields and
\* metadata_fetched = True.
NftMetadataFetched ==
    /\ \E key \in DOMAIN nft_metadata :
         /\ ~nft_metadata[key].metadata_fetched
         /\ nft_metadata' =
               [nft_metadata EXCEPT ![key].metadata_fetched = TRUE]
    /\ UNCHANGED <<redisVars, blockTables, transfers, approvals, failed_jobs,
                   bw, lw, http>>
    /\ UNCHANGED unitVars

NftNext ==
    \/ \E w \in SessionIds : NftQuery(w)
    \/ \E w \in SessionIds : NftCommit(w)
    \/ NftMetadataFetched

SpecNft == Init /\ [][NftNext]_vars

----------------------------------------------------------------------------
(* TokenMetadata.get_metadata *)

TokenTypes == {"erc20", "erc721", "erc1155"}

\* The contract calls of _fetch_from_blockchain: symbol and name, and
\* decimals for an ERC-20 token only.
ContractCalls(token_type) ==
    IF token_type = "erc20" THEN {"symbol", "name", "decimals"}
    ELSE {"symbol", "name"}

\* _fetch_symbol, _fetch_name, _fetch_decimals: the value the contract
\* gives, or None when the call threw or was not made.
FetchField(call, token_type, threw) ==
    IF call \in ContractCalls(token_type) \ threw THEN call ELSE "none"

\* _fetch_from_blockchain: when the contract object cannot be built
\* (setupOk false) a row with failed = True is saved and (None, None)
\* returned; otherwise the three fetches swallow their own exceptions and
\* the row is saved with failed = False.  _save_to_db swallows a failing
\* merge or commit.
FetchFromBlockchain(tbl, token_address, token_type, setupOk, threw, saveOk) ==
    LET row == IF setupOk
               THEN [token_type |-> token_type,
                     symbol |-> FetchField("symbol", token_type, threw),
                     name |-> FetchField("name", token_type, threw),
                     decimals |-> FetchField("decimals", token_type, threw),
                     failed |-> FALSE]
               ELSE [token_type |-> token_type, symbol |-> "none",
                     name |-> "none", decimals |-> "none", failed |-> TRUE]
    IN [tokens |-> IF saveOk THEN Put(tbl, token_address, row) ELSE tbl,
        calls |-> IF setupOk THEN ContractCalls(token_type) ELSE {},
        threw |-> IF setupOk THEN threw ELSE {},
        result |-> [symbol |-> row.symbol, decimals |-> row.decimals]]

\* get_metadata(token_address, token_type): the Token row if there is one,
\* otherwise _fetch_from_blockchain.
GetMetadata ==
    /\ \E token_address \in {"T1", "t2"}, token_type \in TokenTypes,
          setupOk \in BOOLEAN, saveOk \in BOOLEAN :
       \E threw \in SUBSET ContractCalls(token_type) :
         LET a == Lower(token_address)
             f == FetchFromBlockchain(tokens, a, token_type, setupOk,
                                      threw, saveOk)
         IN IF a \in DOMAIN tokens
            THEN /\ meta' = [token_address |-> a, token_type |-> token_type,
                             calls |-> {}, threw |-> {},
                             result |-> [symbol |-> tokens[a].symbol,
                                         decimals |-> tokens[a].decimals]]
                 /\ UNCHANGED tokens
            ELSE /\ meta' = [token_address |-> a, token_type |-> token_type,
                             calls |-> f.calls, threw |-> f.threw,
                             result |-> f.result]
                 /\ tokens' = f.tokens
    /\ UNCHANGED <<pipelineVars, sessions, fetch, parsed, backfill, poller,
                   batch, swap, nftw>>

MetadataNext == GetMetadata

SpecMetadata == Init /\ [][MetadataNext]_vars

----------------------------------------------------------------------------
(* Properties *)

\* Worker w calls delete_job on a stored payload in this step.
Acks(w) ==
    /\ w.pc \in {"ack", "record"}
    /\ w.job_id \in DOMAIN payload
    /\ w.job_id \notin DOMAIN payload'

\* The writes of w's job are in the store: its transactions committed, or a
\* primary-key conflict showed that they were committed before.
WritesCommitted(w) ==
    w.processed = "ok" /\ w.wrote \in {"committed", "duplicate"}

\* C1: a processor acks a popped job (delete_job) only if the transaction
\* holding the job's writes committed or a FailedJob row for the job is
\* committed; a job whose write was rolled back is not acked without a row.
C1_AckOnlyAfterCommitOrRecord ==
    [][ /\ Acks(bw) =>
             WritesCommitted(bw) \/ bw.job_id \in DOMAIN failed_jobs'
        /\ Acks(lw) =>
             WritesCommitted(lw) \/ lw.job_id \in DOMAIN failed_jobs' ]_vars

\* The block processor finishes the iteration of its loop in this step.
BlockIterationEnds == bw.pc \in {"ack", "record"} /\ bw'.pc = "idle"

\* C2: when a processor is through with a popped job, the job's work is
\* committed, or a FailedJob row with its id exists, or the job is still in
\* its queue: no job ends in none of the three.
C2_NoJobLost ==
    [][ BlockIterationEnds =>
          \/ bw.wrote \in {"committed", "duplicate"}
          \/ bw.job_id \in DOMAIN failed_jobs'
          \/ bw.job_id \in Range(queue'["blocks"]) ]_vars

\* record returned False in this step of the block processor: the except
\* branch ran and left the dead-letter table as it was.
BlockRecordReturnedFalse ==
    bw.pc = "record" /\ bw'.pc = "idle" /\ failed_jobs' = failed_jobs

\* C3: when record returns failure for a popped job, the job is still in
\* its queue with its payload stored, so that a later pop returns it.
C3_UnrecordedJobStaysQueued ==
    [][ BlockRecordReturnedFalse =>
          /\ bw.job_id \in Range(queue'["blocks"])
          /\ bw.job_id \in DOMAIN payload' ]_vars

\* C4: after a redriven job (payload status "retrying") was processed
\* successfully, the FailedJob table has no row with its job_id.
C4_RedrivenSuccessLeavesNoRow ==
    [][ (BlockIterationEnds /\ bw.processed = "ok"
           /\ bw.job.status = "retrying") =>
          bw.job_id \notin DOMAIN failed_jobs' ]_vars

EndpointJobType(ep) ==
    IF ep = "redrive-blocks" THEN "process_block" ELSE "process_log"

EndpointQueue(ep) == IF ep = "redrive-blocks" THEN "blocks" ELSE "logs"

\* C5: a redrive request for job type JT republishes exactly the FailedJob
\* rows with status ERROR and job_type JT on JT's queue with payload status
\* "retrying", leaves each of them RETRYING with retries + 1, and leaves all
\* other rows as they were.
C5_RedriveRepublishesErrorRows ==
    [][ http' # http =>
          \A j \in DOMAIN failed_jobs :
            IF /\ failed_jobs[j].status = "ERROR"
               /\ failed_jobs[j].job_type = EndpointJobType(http'.endpoint)
            THEN /\ j \in DOMAIN failed_jobs'
                 /\ failed_jobs'[j].status = "RETRYING"
                 /\ failed_jobs'[j].retries = failed_jobs[j].retries + 1
                 /\ j \in Range(queue'[EndpointQueue(http'.endpoint)])
                 /\ j \in DOMAIN payload'
                 /\ payload'[j].status = "retrying"
            ELSE /\ j \in DOMAIN failed_jobs'
                 /\ failed_jobs'[j] = failed_jobs[j] ]_vars

\* record returned True in this step: run() deleted the payload, which it
\* does exactly in the branch taken on True.
BlockRecordReturnedTrue ==
    /\ bw.pc = "record" /\ bw'.pc = "idle"
    /\ bw.job_id \in DOMAIN payload
    /\ bw.job_id \notin DOMAIN payload'

\* C6: record returns True only if the call committed a FailedJob row for
\* job_id with status ERROR and retries 0; when it returns False the
\* FailedJob table is unchanged by the call.
C6_RecordReturnsTrueOnlyOnCommit ==
    [][ (bw.pc = "record" /\ bw'.pc = "idle") =>
          IF BlockRecordReturnedTrue
          THEN /\ bw.job_id \notin DOMAIN failed_jobs
               /\ bw.job_id \in DOMAIN failed_jobs'
               /\ failed_jobs'[bw.job_id].status = "ERROR"
               /\ failed_jobs'[bw.job_id].retries = 0
               /\ failed_jobs'[bw.job_id].data = bw.job
               /\ \A j \in DOMAIN failed_jobs :
                    j \in DOMAIN failed_jobs'
                    /\ failed_jobs'[j] = failed_jobs[j]
          ELSE failed_jobs' = failed_jobs ]_vars

\* C6 witness: record returned True for a failed block job: its row is in
\* the table with status ERROR and retries 0, and the payload was deleted.
C6_Witness ==
    \E j \in DOMAIN failed_jobs :
        /\ failed_jobs[j].status = "ERROR"
        /\ failed_jobs[j].retries = 0
        /\ j \notin DOMAIN payload
        /\ bw.pc = "idle"

\* C7: for every processed block job exactly one Block row exists for its
\* block_number, with worker_status DONE after success and ERROR after
\* failure once the job is no longer in flight.
C7_ProcessedBlockHasRow ==
    [][ (BlockIterationEnds /\ bw.processed # "none") =>
          /\ bw.job.block_number \in DOMAIN blocks'
          /\ blocks'[bw.job.block_number].worker_status =
               IF bw.processed = "ok" THEN "DONE" ELSE "ERROR" ]_vars

\* C8: every committed Transaction row's block_number has a committed Block
\* row.
C8_TransactionHasBlock ==
    \A t \in DOMAIN transactions :
        transactions[t].block_number \in DOMAIN blocks

\* The log job was processed successfully before: its Transfer or Approval
\* row is in the store, and for an ERC-721 transfer the NftMetadata row too.
AlreadyProcessed(job) ==
    LET ev == LogEvent(job.log)
        key == <<ev.transaction_hash, ev.log_index>>
    IN IF ev.kind = "approval"
       THEN key \in DOMAIN approvals
       ELSE /\ key \in DOMAIN transfers
            /\ ev.kind = "erc721" =>
                 <<Lower(ev.address), ev.token_id>> \in DOMAIN nft_metadata

\* C9: processing a log job again after it was processed successfully
\* leaves Transfer, Approval, AddressStats and NftMetadata as they were.
C9_ReprocessingLeavesTablesUnchanged ==
    [][ (lw.pc = "process" /\ lw'.pc # "process"
           /\ AlreadyProcessed(lw.job)) =>
          UNCHANGED <<transfers, approvals, nft_metadata, address_stats>>
      ]_vars

\* The block job in hand is a duplicate: status "new" for a block whose row
\* is already DONE.
DuplicateNewJob ==
    /\ bw.job.status = "new"
    /\ bw.job.block_number \in DOMAIN blocks
    /\ blocks[bw.job.block_number].worker_status = "DONE"

\* C10: a duplicate "new" block job is tolerated through the primary-key
\* conflict and treated as success: process_block does not raise for the
\* conflict, no FailedJob row is created, and the Block, Transaction and
\* AddressStats rows stay as they were.
C10_DuplicateBlockJobTolerated ==
    [][ /\ (bw.pc = "process" /\ bw'.pc # "process" /\ DuplicateNewJob
              /\ bw'.err \notin {"rpc", "db"}) =>
             /\ bw'.pc = "ack"
             /\ UNCHANGED <<blocks, transactions, address_stats>>
        /\ (bw.pc = "record" /\ bw'.pc = "idle"
              /\ bw.err = "integrity") =>
             failed_jobs' = failed_jobs ]_vars

\* The store as process_block sees it.
Store ==
    [blocks |-> blocks, transactions |-> transactions,
     contracts |-> contracts, address_stats |-> address_stats]

TxCount(stats, a) == IF a \in DOMAIN stats THEN stats[a].tx_count ELSE 0

\* How many upserts of address a the handling of tx issues: one for the
\* deployer of a created contract, one for the sender, one for the receiver.
UpsertsOf(tx, a, receiptOk) ==
    (IF tx.to = NoAddr /\ receiptOk /\ tx.contractAddress # NoAddr
        /\ tx.from # NoAddr /\ Lower(tx.from) = a THEN 1 ELSE 0)
    + (IF tx.from # NoAddr /\ Lower(tx.from) = a THEN 1 ELSE 0)
    + (IF tx.to # NoAddr /\ Lower(tx.to) = a THEN 1 ELSE 0)

\* The upserts of a by the transactions of txs that are not in skip.
RECURSIVE UpsertsOfAll(_, _, _, _)
UpsertsOfAll(txs, skip, a, receiptOk) ==
    IF txs = <<>> THEN 0
    ELSE (IF Head(txs).hash \in skip THEN 0
          ELSE UpsertsOf(Head(txs), a, receiptOk))
         + UpsertsOfAll(Tail(txs), skip, a, receiptOk)

\* C11: if handling one transaction of a block raises inside its savepoint,
\* none of that transaction's writes (Transaction row, Contract row,
\* AddressStats increments) are committed, every other transaction of the
\* block is committed with its AddressStats increments, and the block
\* finishes with worker_status DONE.
C11_BadTransactionIsolated ==
    bw.pc = "process" =>
      \A bad \in SUBSET TxHashesOf(bw.job.block_number), receiptOk \in BOOLEAN :
        LET bn == bw.job.block_number
            r == ProcessBlock(Store, bw.job, TRUE, bad, receiptOk, TRUE, TRUE)
            old == DOMAIN transactions
        IN (bad # {} /\ r.ok) =>
             /\ \A h \in bad : h \in DOMAIN r.transactions => h \in old
             /\ \A i \in DOMAIN TxsOf(bn) :
                  LET tx == TxsOf(bn)[i]
                  IN (tx.hash \in bad /\ tx.contractAddress # NoAddr
                        /\ tx.contractAddress \in DOMAIN r.contracts) =>
                       tx.contractAddress \in DOMAIN contracts
             /\ TxHashesOf(bn) \ bad \subseteq DOMAIN r.transactions
             /\ \A a \in DOMAIN r.address_stats :
                  TxCount(r.address_stats, a) =
                    TxCount(address_stats, a)
                    + UpsertsOfAll(TxsOf(bn), bad \cup old, a, receiptOk)
             /\ bn \in DOMAIN r.blocks
             /\ r.blocks[bn].worker_status = "DONE"

\* C12: when process_block fails outside a per-transaction savepoint (block
\* fetch error, flush or commit error), none of the Transaction, Contract or
\* AddressStats writes of the attempt remain in the store, the Block row is
\* marked ERROR, and a FailedJob row for the job is committed before the job
\* is acked.
C12_OuterFailureRollsBackAndRecords ==
    [][ /\ (bw.pc = "process" /\ bw'.pc = "record") =>
             /\ UNCHANGED <<transactions, contracts, address_stats>>
             /\ bw.job.block_number \in DOMAIN blocks'
             /\ blocks'[bw.job.block_number].worker_status = "ERROR"
        /\ (Acks(bw) /\ bw.processed = "raised") =>
             bw.job_id \in DOMAIN failed_jobs' ]_vars

\* A processor takes the head id off its queue in this step.
BlockPops == bw.pc = "idle" /\ bw'.pc # "idle"
LogPops == lw.pc = "idle" /\ lw'.pc # "idle"

\* C13: under any interleaving of push_json, bl_pop_block / bl_pop_log and
\* delete_job, duplicate pushes of one job_id included, a consumer that pops
\* a job_id finds a payload stored for it: no dangling id is seen.
C13_PoppedIdHasPayload ==
    [][ /\ BlockPops => Head(queue["blocks"]) \in DOMAIN payload
        /\ LogPops => Head(queue["logs"]) \in DOMAIN payload ]_vars

\* C14: when the popped id has no stored payload, bl_pop_block / bl_pop_log
\* return (job_id, None) and the processor loop skips the job and goes on to
\* the next pop: the worker keeps running.
C14_MissingPayloadIsSkipped ==
    [][ /\ (bw.pc = "idle" /\ queue["blocks"] # <<>>
              /\ queue'["blocks"] = Tail(queue["blocks"])
              /\ Head(queue["blocks"]) \notin DOMAIN payload) =>
             bw' = IdleWorker
        /\ (lw.pc = "idle" /\ queue["logs"] # <<>>
              /\ queue'["logs"] = Tail(queue["logs"])
              /\ Head(queue["logs"]) \notin DOMAIN payload) =>
             lw' = IdleWorker ]_vars

\* The place of an address in the lexicographic order of the addresses that
\* occur.
AddressRank(a) ==
    CASE a = "0x0" -> 0
      [] a = "a1" -> 1
      [] a = "a2" -> 2
      [] OTHER -> 3

Ascending(addresses) ==
    \A i, j \in DOMAIN addresses :
        i < j => AddressRank(addresses[i]) <= AddressRank(addresses[j])

\* C15: whenever one database transaction updates AddressStats for two
\* addresses (both sides of a token transfer in _save_transfer, sender and
\* recipient of a transaction in process_block), the upserts are issued in
\* ascending lexicographic order of address, whichever is the sender.
C15_UpsertsInAddressOrder ==
    /\ (lw.pc = "process" /\ LogEvent(lw.job.log).kind # "approval") =>
         Ascending(SaveTransferUpserts(DecodeAddress(LogEvent(lw.job.log).from),
                                       DecodeAddress(LogEvent(lw.job.log).to)))
    /\ bw.pc = "process" =>
         \A i \in DOMAIN TxsOf(bw.job.block_number), receiptOk \in BOOLEAN :
             Ascending(TxUpserts(TxsOf(bw.job.block_number)[i], receiptOk))

\* Session p waits for a row lock that another session holds.
WaitsForLock(p) ==
    /\ sessions[p].open
    /\ sessions[p].stmts # <<>>
    /\ LockedByOther(p, Head(sessions[p].stmts))

\* C16: two processors running concurrently, each updating several
\* AddressStats rows inside one open database transaction, never reach a
\* state in which each holds a row lock the other is waiting for.
C16_NoLockOrderDeadlock ==
    ~ \E p, q \in SessionIds :
        /\ p # q
        /\ WaitsForLock(p) /\ Head(sessions[p].stmts) \in sessions[q].held
        /\ WaitsForLock(q) /\ Head(sessions[q].stmts) \in sessions[p].held

\* The responses to the calls made so far, but for the last one.
EarlierResponsesAre429 ==
    \A i \in 1..(fetch.calls - 1) : fetch.responses[i] = "429"

\* C17: _fetch_block_with_retry calls the RPC at most 5 times for one block:
\* it returns the first successful result, retries only after an HTTP 429,
\* raises after the 5th consecutive 429, and on any other error raises at
\* once without a further attempt.
C17_FetchRetriesOnlyOn429 ==
    /\ fetch.calls <= 5
    /\ fetch.outcome = "pending" =>
         /\ fetch.calls = fetch.attempt
         /\ fetch.calls < 5
         /\ \A i \in 1..fetch.calls : fetch.responses[i] = "429"
    /\ fetch.outcome = "returned" =>
         /\ fetch.responses[fetch.calls] = "block"
         /\ EarlierResponsesAre429
    /\ fetch.outcome = "raised" =>
         /\ EarlierResponsesAre429
         /\ \/ fetch.responses[fetch.calls] \in {"500", "timeout"}
            \/ fetch.responses[fetch.calls] = "429" /\ fetch.calls = 5

\* C17 witness: the call raised after its fifth 429.
C17_Witness ==
    /\ fetch.outcome = "raised"
    /\ fetch.calls = 5
    /\ fetch.responses[5] = "429"

C19_EffectiveGasPrice ==
    parsed.done =>
      /\ "effective_gas_price" \in DOMAIN parsed.row
      /\ parsed.row.effective_gas_price =
           IF parsed.tx.type = 2 /\ parsed.base_fee_known
           THEN Min(parsed.tx.maxFeePerGas,
                    parsed.base_fee_per_gas + parsed.tx.maxPriorityFeePerGas)
           ELSE parsed.tx.gasPrice

\* The log walk handles a rate-limit / "too many results" error of getLogs
\* in this step.
LimitErrorStep ==
    /\ backfill.state = "walking"
    /\ backfill' # backfill
    /\ backfill'.last = "limit"

\* C20: in the backfill log walk, a rate-limit or "too many results" error
\* from getLogs halves batch_size (never below 1) and retries the same
\* window without advancing; the request is failed, reporting
\* blocks_queued, logs_queued and failed_at_block, only once the shrinking
\* has reached 10 without a successful fetch.
C20_LimitErrorHalvesAndRetries ==
    [][ LimitErrorStep =>
          /\ backfill'.current_batch_size =
               Max(1, backfill.current_batch_size \div 2)
          /\ backfill'.current_batch_size >= 1
          /\ backfill'.current_block = backfill.current_block
          /\ UNCHANGED <<queue, payload>>
          /\ backfill'.state \in {"walking", "failed"}
          /\ backfill'.state = "failed" =>
               /\ backfill'.current_batch_size <= 10
               /\ backfill'.response.status = 500
               /\ backfill'.response.blocks_queued = backfill.blocks_queued
               /\ backfill'.response.logs_queued = backfill.total_logs
               /\ backfill'.response.failed_at_block = backfill.current_block
          /\ backfill'.state = "walking" =>
               backfill'.response = backfill.response ]_vars

\* C20 witness: a walk that started with a batch of 40 was halved to 20, 10
\* and 5 on one window and failed there with the counts of the request.
C20_Witness ==
    /\ backfill.state = "failed"
    /\ backfill.last = "limit"
    /\ backfill.batch_size = 40
    /\ backfill.current_batch_size = 5
    /\ backfill.response.failed_at_block = backfill.current_block
    /\ backfill.response.blocks_queued > 0

\* What the validation rules call an integer: a JSON integer.
IsInteger(v) == v.kind = "int"

\* The JSON number v lies outside lo..hi.
OutsideRange(v, lo, hi) ==
    \/ v.kind = "int" /\ (v.n < lo \/ v.n > hi)
    \/ v.kind = "float" /\ (v.n < 2 * lo \/ v.n > 2 * hi)

\* The request breaks one of the rules of POST /api/backfill.
BreaksBackfillRules(req) ==
    \/ req.start.kind = "missing"
    \/ req.end.kind = "missing"
    \/ ~IsInteger(req.start)
    \/ ~IsInteger(req.end)
    \/ req.start.n < 0
    \/ req.start.n > req.end.n
    \/ req.end.n - req.start.n + 1 > MAX_LOG_RANGE
    \/ OutsideRange(req.batch_size, 1, MaxBatchSize)

\* C21: POST /api/backfill (service configured) answers 400 and pushes no
\* job whenever start or end is missing or not an integer, start < 0,
\* start > end, end - start + 1 > 50000 or batch_size is outside [1, 1000];
\* a job is pushed only by a request that meets all of these.
C21_InvalidBackfillRejected ==
    [][(/\ backfill.state = "none"
        /\ backfill'.state # "none"
        /\ backfill'.request.web3
        /\ BreaksBackfillRules(backfill'.request))
       => /\ backfill'.response.status = 400
          /\ UNCHANGED redisVars]_vars

\* The log poller receives log event ev in this step.
PollerReceives(ev) ==
    /\ Len(poller'.received) = Len(poller.received) + 1
    /\ poller'.received[Len(poller'.received)] = ev

\* C22: for every log event the log poller receives from its subscription
\* (an event with a blockNumber), exactly one job log:<tx_hash>:<log_index>
\* with the decoded log as payload is pushed onto the logs queue.
C22_PollerPushesOneJobPerLog ==
    [][\A ev \in LogNumbers :
          PollerReceives(ev)
          => /\ queue'["logs"] = Append(queue["logs"], LogJobId(ev))
             /\ LogJobId(ev) \in DOMAIN payload'
             /\ payload'[LogJobId(ev)] = LogJob(ev)]_vars

\* C23: on SIGINT/SIGTERM a processor lets its in-flight job complete or
\* abort and then stops without starting another pop; it never stops between
\* popping a job and resolving it (by the ack or by the dead-letter record).
C23_StopsOnlyBetweenJobs ==
    [][(bw.pc # "stopped" /\ bw'.pc = "stopped") => bw.pc = "idle"]_vars

\* The transfers of token log j: key, token type and token id of each.
TransfersOfLog(j) ==
    LET ev == TokenLog(j)
    IN IF ev.kind = "erc1155_batch"
       THEN {[key |-> <<ev.transaction_hash, UniqueLogIndex(ev.log_index, i)>>,
              token_type |-> "erc1155", token_id |-> ev.ids[i + 1]] :
                i \in 0..(Len(ev.ids) - 1)}
       ELSE {[key |-> <<ev.transaction_hash, ev.log_index>>,
              token_type |-> ev.kind, token_id |-> ev.token_id]}

\* C24: the synthetic log_index = base_log_index*1000 + i keeps the Transfer
\* key (tx_hash, log_index) unique: no transfer of a handled log (a batch
\* entry or an ordinary transfer log of the same transaction) is dropped as
\* a duplicate of a different one; each has its own row.
C24_BatchKeysUnique ==
    \A j \in batch.done :
        \A t \in TransfersOfLog(j) :
            /\ t.key \in DOMAIN transfers
            /\ transfers[t.key].token_type = t.token_type
            /\ transfers[t.key].token_id = t.token_id

\* The counters of an AddressStats row.
Counters(row) ==
    <<row.tx_count, row.eth_sent, row.eth_received, row.contract_deployments,
      row.token_transfers_sent, row.token_transfers_received>>

CountersNonNegative ==
    \A a \in DOMAIN address_stats :
        \A k \in 1..6 : Counters(address_stats[a])[k] >= 0

CountersDoNotDecrease ==
    \A a \in DOMAIN address_stats :
        /\ a \in DOMAIN address_stats'
        /\ \A k \in 1..6 :
              Counters(address_stats'[a])[k] >= Counters(address_stats[a])[k]

\* C25: every counter of every AddressStats row (tx_count, eth_sent,
\* eth_received, contract_deployments, token_transfers_sent,
\* token_transfers_received) is non-negative in every reachable state and
\* never decreases from one committed state to the next.
C25_CountersNonNegativeMonotone ==
    [] CountersNonNegative /\ [][CountersDoNotDecrease]_vars

\* Both processors have counted for one address: a1 sent ether in a
\* transaction, deployed a contract, and sent and received a token transfer.
C25_Witness ==
    /\ "a1" \in DOMAIN address_stats
    /\ address_stats["a1"].tx_count >= 2
    /\ address_stats["a1"].eth_sent >= 1
    /\ address_stats["a1"].contract_deployments >= 1
    /\ address_stats["a1"].token_transfers_sent >= 1
    /\ address_stats["a1"].token_transfers_received >= 1

\* The signed value of a data word in two's complement: the top bit counts
\* negatively.
TwosComplement(word) ==
    word - (word \div Pow2(WordBits - 1)) * Pow2(WordBits)

\* The directional columns of one side fit the signed amount.
SideFits(amount, amount_in, amount_out) ==
    /\ amount < 0 => amount_in = ToString(0 - amount) /\ amount_out = "0"
    /\ amount >= 0 => amount_in = "0" /\ amount_out = ToString(amount)
    /\ amount_in = "0" \/ amount_out = "0"

\* C26: for a V3 Swap log with signed amounts amount0 and amount1 (two's
\* complement words), for each side X: amountX_in = |amountX| and
\* amountX_out = 0 when amountX < 0, amountX_in = 0 and amountX_out = amountX
\* otherwise; at most one of the two is non-zero; dex_name is "uniswap_v3".
C26_V3SwapDirections ==
    (swap.done /\ swap.saved)
    => /\ SideFits(TwosComplement(swap.amount0), swap.row.amount0_in,
                   swap.row.amount0_out)
       /\ SideFits(TwosComplement(swap.amount1), swap.row.amount1_in,
                   swap.row.amount1_out)
       /\ swap.row.dex_name = "uniswap_v3"

\* A swap with token0 paid in (negative) and token1 paid out was saved.
C26_Witness ==
    /\ swap.done
    /\ swap.saved
    /\ TwosComplement(swap.amount0) < 0
    /\ TwosComplement(swap.amount1) > 0
    /\ swap.row.amount0_in # "0"
    /\ swap.row.amount1_out # "0"

\* The committed transactions address a sent, and those it received.
SentBy(a) ==
    {h \in DOMAIN transactions : Lower(transactions[h].from_address) = a}

ReceivedBy(a) ==
    {h \in DOMAIN transactions :
        /\ transactions[h].to_address # NoAddr
        /\ Lower(transactions[h].to_address) = a}

RECURSIVE SumOfValues(_)
SumOfValues(hashes) ==
    IF hashes = {} THEN 0
    ELSE LET h == CHOOSE x \in hashes : TRUE
         IN transactions[h].value + SumOfValues(hashes \ {h})

DeployedBy(a) ==
    {c \in DOMAIN contracts : Lower(contracts[c].deployer_address) = a}

StatOf(a, counter) ==
    IF a \in DOMAIN address_stats THEN address_stats[a][counter] ELSE 0

\* C27: for every address, AddressStats equals the aggregate of the
\* committed Transaction and Contract rows, however often a block is
\* reprocessed: tx_count = transactions sent + transactions received,
\* eth_sent and eth_received = the sums of their values,
\* contract_deployments = Contract rows it deployed; a sender's tx_count
\* grows by exactly 1 per transaction.
C27_StatsEqualAggregate ==
    \A a \in {"a1", "a2"} \cup DOMAIN address_stats :
        /\ StatOf(a, "tx_count")
              = Cardinality(SentBy(a)) + Cardinality(ReceivedBy(a))
        /\ StatOf(a, "eth_sent") = SumOfValues(SentBy(a))
        /\ StatOf(a, "eth_received") = SumOfValues(ReceivedBy(a))
        /\ StatOf(a, "contract_deployments") = Cardinality(DeployedBy(a))

\* The block processor ends the except branch of a redriven job in this
\* step: process_block or the ack after it had raised, record was called.
RetryFailedAgain ==
    /\ bw.pc = "record"
    /\ bw.job.status = "retrying"
    /\ bw'.pc = "idle"

\* C28: a redriven job that fails again returns to a redrivable state: after
\* the second failure a FailedJob row for its job_id has status ERROR, so
\* that a later redrive republishes it; the row is not left in RETRYING
\* with the job neither in the queue nor redrivable.
C28_FailedRetryIsRedrivable ==
    [][RetryFailedAgain
       => /\ bw.job_id \in DOMAIN failed_jobs'
          /\ failed_jobs'[bw.job_id].status = "ERROR"]_vars

\* The job ids a step appended to the blocks queue with status "retrying".
Republished ==
    {queue'["blocks"][i] :
        i \in {k \in (Len(queue["blocks"]) + 1)..Len(queue'["blocks"]) :
                 payload'[queue'["blocks"][k]].status = "retrying"}}

\* The FailedJob rows a step took from ERROR to RETRYING.
MarkedRetrying ==
    {j \in DOMAIN failed_jobs :
        /\ failed_jobs[j].status = "ERROR"
        /\ j \in DOMAIN failed_jobs'
        /\ failed_jobs'[j].status = "RETRYING"}

\* C29: redrive publishes and marks atomically: the jobs a redrive call
\* pushed onto the queue are the FailedJob rows whose status that call
\* committed to RETRYING; when its commit is rolled back no job was
\* republished.
C29_RedrivePublishesAndMarksTogether ==
    [][Republished = MarkedRetrying]_vars

\* Every write of token log j is in the store after the step: each Transfer
\* row and, for a batch, the NftMetadata stub of each token.
AllWritten(j) ==
    /\ \A t \in TransfersOfLog(j) : t.key \in DOMAIN transfers'
    /\ TokenLog(j).kind = "erc1155_batch"
       => \A t \in TransfersOfLog(j) :
             <<Lower(TokenLog(j).address), t.token_id>>
                \in DOMAIN nft_metadata'

NoneWritten ==
    UNCHANGED <<transfers, address_stats, nft_metadata>>

\* C30: all database writes made for one log job (the Transfer row or rows,
\* the AddressStats updates, the NftMetadata stub or stubs) are committed in
\* one transaction: after the job is handled either all of them are in the
\* store or none, also for a TransferBatch with several entries.
C30_LogJobWritesAllOrNothing ==
    [][batch'.last # 0 => AllWritten(batch'.last) \/ NoneWritten]_vars

\* C31: a TransferBatch log whose data fails ABI decoding, or whose ids and
\* values arrays differ in length, is skipped as a whole: handling it writes
\* no Transfer, AddressStats or NftMetadata row, and the job counts as
\* handled, without an exception and without a FailedJob row.
C31_MalformedBatchSkipped ==
    [][batch'.last \in MalformedLogNumbers
         => /\ UNCHANGED <<transfers, address_stats, nft_metadata>>
            /\ ~batch'.raised
            /\ failed_jobs' = failed_jobs]_vars

\* The Transfer rows sent by, and received by, address a.
TransfersFrom(a) == {k \in DOMAIN transfers : transfers[k].from_address = a}
TransfersTo(a) == {k \in DOMAIN transfers : transfers[k].to_address = a}

\* The addresses of the Transfer rows and of the AddressStats rows.
TransferParties ==
    DOMAIN address_stats
      \cup {transfers[k].from_address : k \in DOMAIN transfers}
      \cup {transfers[k].to_address : k \in DOMAIN transfers}

StatsRowsTouched ==
    {a \in DOMAIN address_stats' :
        a \notin DOMAIN address_stats \/ address_stats'[a] # address_stats[a]}

\* The sender and the recipient of token log j, the zero address left out.
NonZeroParties(j) ==
    {DecodeAddress(TokenLog(j).from), DecodeAddress(TokenLog(j).to)}
       \ {ZeroAddress}

\* C33: no token transfer creates or changes the AddressStats row of the
\* zero address: a mint updates only the recipient's row, a burn only the
\* sender's row.
C33_ZeroAddressHasNoStats ==
    [][/\ ZeroAddress \notin DOMAIN address_stats'
       /\ batch'.last \in TokenLogNumbers
            => StatsRowsTouched \subseteq NonZeroParties(batch'.last)]_vars

\* A mint and a burn have been committed and their other sides counted.
C33_Witness ==
    /\ \E k \in DOMAIN transfers : transfers[k].from_address = ZeroAddress
    /\ \E k \in DOMAIN transfers : transfers[k].to_address = ZeroAddress
    /\ StatOf("a1", "token_transfers_received") >= 1
    /\ StatOf("a2", "token_transfers_sent") >= 1

\* The log jobs of the blocks from..to, as the walk enqueues them.
LogJobsOf(from, to) ==
    [k \in 1..Len(LogsIn(from, to)) |-> LogJobId(LogsIn(from, to)[k])]

C35_LogWalkTerminates ==
    /\ [](backfill.calls < MaxCalls)
    /\ [](backfill.state \in {"done", "failed"}
           => backfill.response.status \in {201, 500})
    /\ (backfill.state = "walking") ~> (backfill.state # "walking")

\* A window that is tried for the third time, after two limit errors
\* halved a batch of 40 to 10, in a walk that already fetched a window.
C35_Witness ==
    /\ backfill.state = "walking"
    /\ backfill.batch_size = 40
    /\ backfill.current_batch_size = 10
    /\ backfill.last = "limit"
    /\ backfill.calls >= 5

\* C36: first_seen_block <= last_seen_block in every AddressStats row, in
\* every reachable state, for any order in which blocks and logs are
\* processed.
C36_FirstSeenBeforeLastSeen ==
    \A a \in DOMAIN address_stats :
        address_stats[a].first_seen_block <= address_stats[a].last_seen_block

\* The NftMetadata row of token (t1, 1), if any.
NftRow(nft) == nft[<<"t1", 1>>]

\* C37: after any interleaving of ERC-721 transfer log jobs for one
\* (token_address, token_id), by one or several workers, the pair has one
\* NftMetadata row and its owner is the `to` address of the transfer whose
\* job completed last; a new row has metadata_fetched = false, and a step
\* on an existing row changes only its owner.
C37_NftOwnerIsLastTransfer ==
    /\ []((nftw.last # 0 /\ \A w \in SessionIds :
                                nftw.workers[w].pc = "idle")
           => /\ <<"t1", 1>> \in DOMAIN nft_metadata
              /\ NftRow(nft_metadata).owner
                   = Lower(DecodeAddress(LogEvent(nftw.last).to)))
    /\ [][nftw'.last # nftw.last \/ nftw'.workers # nftw.workers
           => IF <<"t1", 1>> \in DOMAIN nft_metadata
              THEN NftRow(nft_metadata') =
                     [NftRow(nft_metadata) EXCEPT
                        !.owner = NftRow(nft_metadata').owner]
              ELSE <<"t1", 1>> \in DOMAIN nft_metadata'
                     => ~NftRow(nft_metadata').metadata_fetched]_vars

\* C38: get_metadata for an address without a Token row makes the contract
\* calls and upserts a Token row before it returns; the row has failed =
\* true exactly when every contract call made threw, and failed = false
\* with null fields for the calls that threw otherwise.  With a Token row
\* the call answers from the row and makes no contract call.
C38_MetadataRowReflectsCalls ==
    [][meta' # meta \/ tokens' # tokens
        => LET a == meta'.token_address
           IN IF a \in DOMAIN tokens
              THEN /\ meta'.calls = {}
                   /\ meta'.result.symbol = tokens[a].symbol
                   /\ meta'.result.decimals = tokens[a].decimals
                   /\ tokens' = tokens
              ELSE /\ a \in DOMAIN tokens'
                   /\ tokens'[a].failed <=> meta'.threw = meta'.calls
                   /\ ~tokens'[a].failed
                        => /\ tokens'[a].symbol = "none"
                              <=> "symbol" \in meta'.threw
                           /\ tokens'[a].name = "none"
                              <=> "name" \in meta'.threw]_vars

\* a is what str.lower() makes of it.
IsLowercase(a) == Lower(a) = a

\* C39: every address column written by the processors holds a lowercase
\* string, whatever letter case the RPC result or the log payload used:
\* the addresses of Transaction, Contract, Transfer, Approval, NftMetadata
\* and AddressStats rows.
C39_AddressesLowercase ==
    /\ \A h \in DOMAIN transactions :
          /\ IsLowercase(transactions[h].from_address)
          /\ IsLowercase(transactions[h].to_address)
    /\ \A c \in DOMAIN contracts :
          /\ IsLowercase(c)
          /\ IsLowercase(contracts[c].deployer_address)
    /\ \A k \in DOMAIN transfers :
          /\ IsLowercase(transfers[k].token_address)
          /\ IsLowercase(transfers[k].from_address)
          /\ IsLowercase(transfers[k].to_address)
    /\ \A k \in DOMAIN nft_metadata :
          /\ IsLowercase(k[1])
          /\ IsLowercase(nft_metadata[k].owner)
    /\ \A a \in DOMAIN address_stats : IsLowercase(a)

\* The name the known factory table gives, with the fallback for a factory
\* that is unknown or could not be read.
ExpectedDexName(factory_address) ==
    CASE factory_address = "uniswap_v2_factory" -> "uniswap_v2"
      [] factory_address = "sushiswap_factory" -> "sushiswap"
      [] factory_address = "uniswap_v3_factory" -> "uniswap_v3"
      [] OTHER -> "uniswap_v2"

\* C40: for a V2-style Swap log whose pool tokens resolve (and whose commit
\* the database does not refuse), a Swap row is written whose dex_name is
\* the name the known factory table gives for the pool's factory() address,
\* and
\* "uniswap_v2" when the factory is unknown or cannot be read.
C40_V2SwapDexName ==
    (swap.done /\ swap.resolved /\ ~swap.refused)
       => /\ swap.saved
          /\ swap.row.dex_name = ExpectedDexName(swap.factory)

====
